---- MODULE Spec2Model ----
(***************************************************************************)
(* The server cluster of r2wraith (src/src/server_cluster.rs): the ordered *)
(* list of servers, the container engine they run on, and the operations   *)
(* load_servers, stop_old, stop_all, stop (by name) and poll.  poll is     *)
(* modelled phase by phase: the concurrent liveness futures (Phase A), the *)
(* serial port allocation (Phase B) and the concurrent start futures       *)
(* (Phase C).  serialize and deserialize, the start-up of main and the     *)
(* loop of its server thread (src/src/main.rs), and PlaylistOverrides::or  *)
(* (src/src/config.rs) follow, each with a specification of its own.       *)
(***************************************************************************)
EXTENDS Integers, Sequences, FiniteSets, TLC

\* ------------------------------------------------------------------ bounds

\* Longest server list handed to load_servers.
MaxNew == 2
\* Containers the engine creates before it refuses every further create.
MaxContainers == 2
\* Last instant of the clock.
MaxTime == 2
\* config.game_ports, an inclusive range.
GamePortsStart == 1
GamePortsEnd == 2
\* config.auth_ports, an inclusive range.
AuthPortsStart == 11
AuthPortsEnd == 12
\* Period of the one cron schedule the configs use.
SchedulePeriod == 1
\* Lower of the two values match_max_players takes.
MaxPlayersLow == 8
\* Most engine calls of one Server::stop that are told apart.
MaxStopCalls == 3

\* ----------------------------------------------------------------- options

None == << >>
Some(x) == << x >>
IsSome(o) == o # None
Unwrap(o) == o[1]

\* ------------------------------------------------------------------- types

Ids == {"a", "b"}

\* Pinned game ports of the configs: none, one inside the pool, one outside.
GamePins == {None, Some(GamePortsStart), Some(GamePortsEnd + 1)}
\* Pinned auth ports of the configs: none, or one outside the pool.
AuthPins == {None, Some(AuthPortsEnd + 1)}
Schedules == {None, Some(SchedulePeriod)}

\* The configs of the servers: at most one of the two ports pinned and no
\* restart schedule, or no port pinned and a schedule or none.
Configs ==
    {c \in [game_port : GamePins, auth_port : AuthPins, restart_schedule : {None}] :
        c.game_port = None \/ c.auth_port = None}

ScheduledConfigs ==
    [game_port : {None}, auth_port : {None}, restart_schedule : Schedules]

NotRunning == [tag |-> "NotRunning"]

\* RunningServer with the two ports, both u16, taken one for the other.
RunningServerPortsSwapped(container_id, auth_port, game_port, start_time) ==
    [tag |-> "Running", container_id |-> container_id, auth_port |-> game_port,
     game_port |-> auth_port, start_time |-> start_time]

RunningServer(container_id, auth_port, game_port, start_time) ==
    [tag |-> "Running", container_id |-> container_id, auth_port |-> auth_port,
     game_port |-> game_port, start_time |-> start_time]

IsRunning(state) == state.tag = "Running"

\* Server::new
NewServer(id, config) ==
    [id |-> id, config |-> config, state |-> NotRunning, is_old |-> FALSE]

\* The lists load_servers is called with: distinct ids (the config's servers
\* are the keys of a map), every server as Server::new makes it.
IdLists ==
    {ids \in UNION {[1..n -> Ids] : n \in 0..MaxNew} :
        \A i, j \in DOMAIN ids : i # j => ids[i] # ids[j]}

ServerLists(configs) ==
    UNION {{[k \in DOMAIN ids |-> NewServer(ids[k], cfg[k])] :
                cfg \in [DOMAIN ids -> configs]} : ids \in IdLists}

NewServerLists == ServerLists(Configs)

ScheduledServerLists == ServerLists(ScheduledConfigs)

\* ------------------------------------------------------------------- state

VARIABLES
    servers,                  \* ServerCluster.servers
    containers,               \* the engine: running container id -> created time
    created_count,            \* containers the engine has created so far
    now,                      \* the clock (Utc::now, the engine's created time)
    pc,                       \* where the driver is: idle, phase_a, phase_c, return
    op,                       \* the cluster operation the driver is in, if any
    new_servers,              \* load_servers' argument
    name,                     \* get_mut's argument
    stop_refused,             \* indices whose stop request the engine answered
                              \* with an error in stop_old, stop_all or stop
    no_created,               \* deserialize: indices of the records whose
                              \* inspect response had no valid created time
    poll_time,                \* poll's local
    restart_servers_futures,  \* Phase A futures not yet complete (indices)
    restart_server_indices,   \* Phase A results, in cluster order
    restart_reason,           \* which return of the Phase A future was taken
    scheduled_stop,           \* what the Phase A future's scheduled stop met
    restart_server_details,   \* Phase B's map: index -> ports
    start_server_futures,     \* Phase C futures not yet complete (indices)
    start_server_results,     \* what Server::start returned, per index
    status,                   \* poll's PollStatus
    supervisor,               \* where the server thread of main is, if there is one
    restore_file,             \* the restore file on disk
    command,                  \* the ReplCommand the server thread has handled
                              \* since the last poll, if any
    self_overrides,           \* PlaylistOverrides::or's self
    other,                    \* PlaylistOverrides::or's other
    or_result,                \* what PlaylistOverrides::or returned, if called
    filled_config,            \* the config Server::start builds arguments from
    arg_builder,              \* the ArgBuilder, once made
    extra_args,               \* ArgBuilder::build's local
    out_envs,                 \* what build pushed to out_envs, once called
    responses,                \* what the engine answers each server's futures
    entry,                    \* the cluster and the engine as poll was called
    stop_calls                \* the engine calls of the Server::stop in progress

args == <<new_servers, name, stop_refused, no_created>>
poll_vars == <<poll_time, restart_servers_futures, restart_server_indices,
               restart_reason, scheduled_stop, restart_server_details, start_server_futures,
               start_server_results, status>>
cluster_vars == <<servers, containers, created_count, now, pc, op, new_servers,
                  name, stop_refused, no_created, poll_time,
                  restart_servers_futures, restart_server_indices, restart_reason,
                  scheduled_stop, restart_server_details, start_server_futures,
                  start_server_results, status>>
main_vars == <<supervisor, restore_file, command>>
or_vars == <<self_overrides, other, or_result>>
build_vars == <<filled_config, arg_builder, extra_args, out_envs>>
fixed_vars == <<responses, entry>>
side_vars == <<or_vars, build_vars, fixed_vars, stop_calls>>
vars == <<cluster_vars, main_vars, side_vars>>

NoContainers == [c \in {} |-> 0]

\* ServerCluster::new, a clock at its first instant, no poll in progress.
NewCluster ==
    /\ servers = << >>
    /\ containers = NoContainers
    /\ created_count = 0
    /\ now = 0
    /\ pc = "idle"
    /\ op = "none"
    /\ new_servers = << >>
    /\ name = ""
    /\ stop_refused = {}
    /\ no_created = {}
    /\ poll_time = 0
    /\ restart_servers_futures = {}
    /\ restart_server_indices = << >>
    /\ restart_reason = << >>
    /\ scheduled_stop = << >>
    /\ restart_server_details = << >>
    /\ start_server_futures = {}
    /\ start_server_results = << >>
    /\ status = "None"

\* PlaylistOverrides, with one scalar field of each kind: a flag, a number and
\* an enum.
Riffs == {"FloorIsLava", "AllHolopilot"}

OptionOf(values) == {None} \cup {Some(v) : v \in values}

PlaylistOverridesValues ==
    [riffs : SUBSET Riffs,
     match_classic_mp_enabled : OptionOf(BOOLEAN),
     match_max_players : OptionOf({MaxPlayersLow, MaxPlayersLow + 1}),
     pilot_bleedout_mode : OptionOf({"Disabled", "Default"})]

\* PlaylistOverrides::default()
DefaultOverrides ==
    [riffs |-> {}, match_classic_mp_enabled |-> None, match_max_players |-> None,
     pilot_bleedout_mode |-> None]

\* No ArgBuilder is made and build is not called.
NoArgBuilder ==
    /\ filled_config = None
    /\ arg_builder = None
    /\ extra_args = << >>
    /\ out_envs = None

\* No poll with the engine's answers fixed is in progress.
NoFixedPoll ==
    /\ responses = << >>
    /\ entry = None

\* No restore file on disk.
NoFile == [present |-> FALSE, parsable |-> FALSE, records |-> << >>]

\* A restore file that serde_json cannot parse.
UnparsableFile == [present |-> TRUE, parsable |-> FALSE, records |-> << >>]

\* The cluster used directly: no server thread, no restore file, no call of
\* PlaylistOverrides::or.
Init ==
    /\ NewCluster
    /\ supervisor = "none"
    /\ restore_file = NoFile
    /\ command = "None"
    /\ self_overrides = DefaultOverrides
    /\ other = DefaultOverrides
    /\ or_result = None
    /\ NoArgBuilder
    /\ NoFixedPoll
    /\ stop_calls = << >>

\* ------------------------------------------------------------ Server::stop

WithoutContainer(cs, container_id) ==
    [c \in DOMAIN cs \ {container_id} |-> cs[c]]

\* Stop setting the state once the request is accepted, the container still
\* there.
StopWithoutWaiting(server, cs, refuse) ==
    IF IsRunning(server.state)
    THEN IF refuse \/ server.state.container_id \notin DOMAIN cs
         THEN [server |-> server, containers |-> cs]
         ELSE [server |-> [server EXCEPT !.state = NotRunning], containers |-> cs]
    ELSE [server |-> [server EXCEPT !.state = NotRunning], containers |-> cs]

\* Stop setting the state whatever the engine answered.
StopWhateverTheAnswer(server, cs, refuse) ==
    [server |-> [server EXCEPT !.state = NotRunning],
     containers |-> IF IsRunning(server.state) /\ ~refuse
                    THEN WithoutContainer(cs, server.state.container_id)
                    ELSE cs]

\* Server::stop.  refuse: the engine answers the stop request with an error
\* (it always does for a container it does not know).  An accepted stop ends
\* with the container gone from the engine, which is when the wait loop
\* breaks.
Stop(server, cs, refuse) ==
    IF IsRunning(server.state)
    THEN IF refuse \/ server.state.container_id \notin DOMAIN cs
         THEN [server |-> server, containers |-> cs]
         ELSE [server |-> [server EXCEPT !.state = NotRunning],
               containers |-> WithoutContainer(cs, server.state.container_id)]
    ELSE [server |-> [server EXCEPT !.state = NotRunning], containers |-> cs]

\* ----------------------------------------------------------- ServerCluster

\* FindServer taking the first server whatever its id.
FindServerAny(svrs, id) == IF svrs # << >> THEN 1 ELSE 0

\* iter_mut().find(|server| server.id == id): the first index with that id, 0
\* when there is none.
FindServer(svrs, id) ==
    IF \E j \in DOMAIN svrs : svrs[j].id = id
    THEN CHOOSE j \in DOMAIN svrs :
            /\ svrs[j].id = id
            /\ \A h \in DOMAIN svrs : svrs[h].id = id => j <= h
    ELSE 0

\* CarryStates with the state copied to the new server and left in the old one.
RECURSIVE CarryStatesCopied(_, _, _)
CarryStatesCopied(list, old_servers, k) ==
    IF k > Len(list)
    THEN [new_servers |-> list, old_servers |-> old_servers]
    ELSE LET j == FindServer(old_servers, list[k].id)
         IN  IF j = 0
             THEN CarryStatesCopied(list, old_servers, k + 1)
             ELSE CarryStatesCopied(
                    [list EXCEPT ![k].state = old_servers[j].state],
                    old_servers, k + 1)

\* load_servers, first loop: each new server swaps states with the existing
\* server of its id.
RECURSIVE CarryStates(_, _, _)
CarryStates(list, old_servers, k) ==
    IF k > Len(list)
    THEN [new_servers |-> list, old_servers |-> old_servers]
    ELSE LET j == FindServer(old_servers, list[k].id)
         IN  IF j = 0
             THEN CarryStates(list, old_servers, k + 1)
             ELSE CarryStates(
                    [list EXCEPT ![k].state = old_servers[j].state],
                    [old_servers EXCEPT ![j].state = list[k].state],
                    k + 1)

\* PushOldServers without the test for a Running state.
RECURSIVE PushOldServersAll(_, _, _)
PushOldServersAll(svrs, old_servers, k) ==
    IF k > Len(old_servers)
    THEN svrs
    ELSE PushOldServersAll(
            Append(svrs, [old_servers[k] EXCEPT !.is_old = TRUE]),
            old_servers, k + 1)

\* load_servers, second loop: every old server still Running is marked is_old
\* and pushed at the end.
RECURSIVE PushOldServers(_, _, _)
PushOldServers(svrs, old_servers, k) ==
    IF k > Len(old_servers)
    THEN svrs
    ELSE IF IsRunning(old_servers[k].state)
         THEN PushOldServers(
                Append(svrs, [old_servers[k] EXCEPT !.is_old = TRUE]),
                old_servers, k + 1)
         ELSE PushOldServers(svrs, old_servers, k + 1)

\* LoadServersResult with the is_old mark carried across along with the state.
LoadServersResultStillOld(svrs, list) ==
    LET carried == CarryStates(list, svrs, 1)
        r == PushOldServers(carried.new_servers, carried.old_servers, 1)
    IN  [k \in DOMAIN r |->
            IF \E i \in DOMAIN svrs : svrs[i].id = r[k].id /\ svrs[i].is_old
            THEN [r[k] EXCEPT !.is_old = TRUE]
            ELSE r[k]]

\* load_servers: the new list with the states carried across, then the old
\* servers still Running.
LoadServersResult(svrs, list) ==
    LET carried == CarryStates(list, svrs, 1)
    IN  PushOldServers(carried.new_servers, carried.old_servers, 1)

\* StopEach leaving the is_old servers alone in stop_all too.
RECURSIVE StopEachNotOld(_, _, _, _, _)
StopEachNotOld(svrs, cs, k, old_only, refused) ==
    IF k > Len(svrs)
    THEN [servers |-> svrs, containers |-> cs]
    ELSE IF old_only = svrs[k].is_old
         THEN LET r == Stop(svrs[k], cs, k \in refused)
              IN  StopEachNotOld([svrs EXCEPT ![k] = r.server], r.containers,
                                 k + 1, old_only, refused)
         ELSE StopEachNotOld(svrs, cs, k + 1, old_only, refused)

\* The loop of stop_old (old_only) and of stop_all: the servers are stopped one
\* after the other, stop_old skipping those that are not is_old; refused is
\* the set of indices whose stop request the engine refuses.
RECURSIVE StopEach(_, _, _, _, _)
StopEach(svrs, cs, k, old_only, refused) ==
    IF k > Len(svrs)
    THEN [servers |-> svrs, containers |-> cs]
    ELSE IF old_only /\ ~svrs[k].is_old
         THEN StopEach(svrs, cs, k + 1, old_only, refused)
         ELSE LET r == Stop(svrs[k], cs, k \in refused)
              IN  StopEach([svrs EXCEPT ![k] = r.server], r.containers,
                           k + 1, old_only, refused)

\* RetainNotOld keeping the old servers that still run.
RetainNotOldOrRunning(svrs) ==
    SelectSeq(svrs, LAMBDA server : ~server.is_old \/ IsRunning(server.state))

\* retain(|server| !server.is_old)
RetainNotOld(svrs) == SelectSeq(svrs, LAMBDA server : ~server.is_old)

\* The indices whose stop request the engine can accept or refuse.
Stoppable(svrs, cs) ==
    {k \in DOMAIN svrs :
        IsRunning(svrs[k].state) /\ svrs[k].state.container_id \in DOMAIN cs}

\* The stop requests the engine answers with an error, among those made for
\* the servers at targets: the refused ones and those for a container it does
\* not know.
Refusals(svrs, cs, targets, refused) ==
    {k \in targets :
        /\ IsRunning(svrs[k].state)
        /\ k \in refused \/ svrs[k].state.container_id \notin DOMAIN cs}

Idle == pc = "idle"

LoadServers(list) ==
    /\ Idle
    /\ servers' = LoadServersResult(servers, list)
    /\ op' = "load_servers"
    /\ new_servers' = list
    /\ pc' = "return"
    /\ UNCHANGED <<containers, created_count, now, name, stop_refused, no_created,
                   poll_vars>>
    /\ UNCHANGED <<main_vars, side_vars>>

StopOld(refused) ==
    /\ Idle
    /\ LET r == StopEach(servers, containers, 1, TRUE, refused)
       IN  /\ servers' = RetainNotOld(r.servers)
           /\ containers' = r.containers
    /\ stop_refused' =
          Refusals(servers, containers, {k \in DOMAIN servers : servers[k].is_old},
                   refused)
    /\ op' = "stop_old"
    /\ pc' = "return"
    /\ UNCHANGED <<created_count, now, new_servers, name, no_created, poll_vars>>
    /\ UNCHANGED <<main_vars, side_vars>>

StopAll(refused) ==
    /\ Idle
    /\ LET r == StopEach(servers, containers, 1, FALSE, refused)
       IN  /\ servers' = r.servers
           /\ containers' = r.containers
    /\ stop_refused' = Refusals(servers, containers, DOMAIN servers, refused)
    /\ op' = "stop_all"
    /\ pc' = "return"
    /\ UNCHANGED <<created_count, now, new_servers, name, no_created, poll_vars>>
    /\ UNCHANGED <<main_vars, side_vars>>

\* get_mut(name) and, when it finds a server, Server::stop on it.
StopByName(id, refuse) ==
    /\ Idle
    /\ LET j == FindServer(servers, id)
       IN  IF j = 0
           THEN UNCHANGED <<servers, containers>>
           ELSE LET r == Stop(servers[j], containers, refuse)
                IN  /\ servers' = [servers EXCEPT ![j] = r.server]
                    /\ containers' = r.containers
    /\ stop_refused' =
          Refusals(servers, containers, {FindServer(servers, id)} \ {0},
                   IF refuse THEN DOMAIN servers ELSE {})
    /\ op' = "stop"
    /\ name' = id
    /\ pc' = "return"
    /\ UNCHANGED <<created_count, now, new_servers, no_created, poll_vars>>
    /\ UNCHANGED <<main_vars, side_vars>>


\* ------------------------------------------------------ poll: Phase A

\* schedule.after(&start_time).next(): the first instant of the schedule
\* strictly after start_time, for a schedule firing at every multiple of period.
NextAfter(period, start_time) == ((start_time \div period) + 1) * period

\* Whether the scheduled restart of a Running server has passed at poll_time.
\* RestartPassed with the poll instant itself taken as passed.
RestartPassedOrNow(server, t) ==
    /\ IsSome(server.config.restart_schedule)
    /\ NextAfter(Unwrap(server.config.restart_schedule), server.state.start_time) <= t

RestartPassed(server, t) ==
    /\ IsSome(server.config.restart_schedule)
    /\ NextAfter(Unwrap(server.config.restart_schedule), server.state.start_time) < t

\* ContainerRunning taking every container for a running one.
ContainerRunningAlways(cs, container_id) == TRUE

\* The match on the inspect response: the engine knows the container and
\* reports it running.
ContainerRunning(cs, container_id) == container_id \in DOMAIN cs

\* LivenessFuture stopping every Running server to start it afresh.
LivenessFutureStopFirst(server, server_index, cs, t, refuse_scheduled, has_ip, connects, refuse_frozen) ==
    LET stopped == Stop(server, cs, refuse_frozen)
    IN  [server |-> stopped.server, containers |-> stopped.containers,
         scheduled |-> "NotAttempted",
         index |-> IF IsRunning(stopped.server.state) THEN None ELSE Some(server_index),
         reason |-> IF IsRunning(stopped.server.state) THEN "None" ELSE "Frozen"]

\* One future of restart_servers_futures, for the server at server_index.
\* refuse_scheduled / refuse_frozen: the engine refuses the stop request of the
\* scheduled restart / of the frozen server; has_ip: the inspect response
\* holds an IP address; connects: the auth port accepts a TCP connection.
LivenessFuture(server, server_index, cs, t, refuse_scheduled, has_ip, connects, refuse_frozen) ==
    IF ~IsRunning(server.state)
    THEN [server |-> server, containers |-> cs, scheduled |-> "NotAttempted",
          index |-> Some(server_index), reason |-> "NotRunning"]
    ELSE IF ~ContainerRunning(cs, server.state.container_id)
    THEN [server |-> [server EXCEPT !.state = NotRunning], containers |-> cs,
          scheduled |-> "NotAttempted",
          index |-> Some(server_index), reason |-> "ContainerStopped"]
    ELSE LET passed == RestartPassed(server, t)
             scheduled == IF passed
                          THEN Stop(server, cs, refuse_scheduled)
                          ELSE [server |-> server, containers |-> cs]
             attempt == IF ~passed THEN "NotAttempted"
                        ELSE IF refuse_scheduled THEN "Refused"
                        ELSE "Accepted"
         IN  IF ~IsRunning(scheduled.server.state)
             THEN [server |-> scheduled.server, containers |-> scheduled.containers,
                   scheduled |-> attempt,
                   index |-> Some(server_index), reason |-> "ScheduledRestart"]
             ELSE IF ~has_ip
             THEN [server |-> scheduled.server, containers |-> scheduled.containers,
                   scheduled |-> attempt,
                   index |-> None, reason |-> "None"]
             ELSE IF ~connects
             THEN LET frozen == Stop(scheduled.server, scheduled.containers,
                                     refuse_frozen)
                  IN  IF ~IsRunning(frozen.server.state)
                      THEN [server |-> frozen.server, containers |-> frozen.containers,
                            scheduled |-> attempt,
                            index |-> Some(server_index), reason |-> "Frozen"]
                      ELSE [server |-> frozen.server, containers |-> frozen.containers,
                            scheduled |-> attempt,
                            index |-> None, reason |-> "None"]
             ELSE [server |-> scheduled.server, containers |-> scheduled.containers,
                   scheduled |-> attempt,
                   index |-> None, reason |-> "None"]

\* poll is called: poll_time is taken and one future per server is made.
PollBegin ==
    /\ Idle
    /\ supervisor \in {"none", "first_poll", "poll"}
    /\ pc' = "phase_a"
    /\ op' = "poll"
    /\ poll_time' = now
    /\ restart_servers_futures' = DOMAIN servers
    /\ restart_server_indices' = [i \in DOMAIN servers |-> None]
    /\ restart_reason' = [i \in DOMAIN servers |-> "Pending"]
    /\ scheduled_stop' = [i \in DOMAIN servers |-> "NotAttempted"]
    /\ restart_server_details' = [i \in DOMAIN servers |-> None]
    /\ start_server_futures' = {}
    /\ start_server_results' = [i \in DOMAIN servers |-> "NotStarted"]
    /\ status' = "None"
    /\ UNCHANGED <<servers, containers, created_count, now, args>>
    /\ UNCHANGED <<main_vars, side_vars>>

\* One Phase A future runs to completion.
PollLiveness(server_index) ==
    /\ pc = "phase_a"
    /\ server_index \in restart_servers_futures
    /\ \E refuse_scheduled, has_ip, connects, refuse_frozen \in BOOLEAN :
         LET r == LivenessFuture(servers[server_index], server_index, containers,
                                 poll_time, refuse_scheduled, has_ip, connects,
                                 refuse_frozen)
         IN  /\ servers' = [servers EXCEPT ![server_index] = r.server]
             /\ containers' = r.containers
             /\ restart_server_indices' =
                    [restart_server_indices EXCEPT ![server_index] = r.index]
             /\ restart_reason' = [restart_reason EXCEPT ![server_index] = r.reason]
             /\ scheduled_stop' = [scheduled_stop EXCEPT ![server_index] = r.scheduled]
    /\ restart_servers_futures' = restart_servers_futures \ {server_index}
    /\ UNCHANGED <<created_count, now, pc, op, args, poll_time,
                   restart_server_details, start_server_futures,
                   start_server_results, status>>
    /\ UNCHANGED <<main_vars, side_vars>>

\* ------------------------------------------------------ poll: Phase B

\* The ports held by the Running servers: (auth_ports_in_use, game_ports_in_use).
PortsInUse(svrs) ==
    [auth |-> {svrs[i].state.auth_port : i \in {j \in DOMAIN svrs : IsRunning(svrs[j].state)}},
     game |-> {svrs[i].state.game_port : i \in {j \in DOMAIN svrs : IsRunning(svrs[j].state)}}]

\* FirstFree trying the first port of the range only.
FirstFreeOnlyFirst(start, end, in_use) ==
    IF start \notin in_use THEN Some(start) ELSE None

\* FirstFree scanning the range from its end.
FirstFreeFromEnd(start, end, in_use) ==
    IF \E port \in start..end : port \notin in_use
    THEN Some(CHOOSE port \in start..end :
                /\ port \notin in_use
                /\ \A q \in start..end : q \notin in_use => port >= q)
    ELSE None

\* range.into_iter().find(|port| !in_use.contains(port))
FirstFree(start, end, in_use) ==
    IF \E port \in start..end : port \notin in_use
    THEN Some(CHOOSE port \in start..end :
                /\ port \notin in_use
                /\ \A q \in start..end : q \notin in_use => port <= q)
    ELSE None

\* AllocatePort giving a pinned port without looking at the in-use set.
AllocatePortPinnedAnyway(pinned, start, end, in_use) ==
    IF IsSome(pinned) THEN pinned ELSE FirstFree(start, end, in_use)

\* The match on a pinned port: the pinned port when it is free, no port when it
\* is used, the first free port of the pool when none is pinned.
AllocatePort(pinned, start, end, in_use) ==
    IF IsSome(pinned)
    THEN IF Unwrap(pinned) \notin in_use THEN pinned ELSE None
    ELSE FirstFree(start, end, in_use)

\* InsertPorts with the insertion forgotten.
InsertPortsForgotten(in_use, auth_port, game_port) == in_use

\* InsertPorts inserting the auth port only.
InsertPortsAuthOnly(in_use, auth_port, game_port) ==
    [auth |-> in_use.auth \cup {auth_port}, game |-> in_use.game]

\* "Ensure other servers can't use these ports"
InsertPorts(in_use, auth_port, game_port) ==
    [auth |-> in_use.auth \cup {auth_port}, game |-> in_use.game \cup {game_port}]

\* AllocateAll giving up every assignment when one server gets no ports.
RECURSIVE AllocateAllOrNothing(_, _, _, _, _)
AllocateAllOrNothing(svrs, indices, k, in_use, details) ==
    IF k > Len(indices)
    THEN details
    ELSE IF indices[k] = None
    THEN AllocateAllOrNothing(svrs, indices, k + 1, in_use, details)
    ELSE LET server_index == Unwrap(indices[k])
             server == svrs[server_index]
             auth_port == AllocatePort(server.config.auth_port, AuthPortsStart,
                                       AuthPortsEnd, in_use.auth)
             game_port == AllocatePort(server.config.game_port, GamePortsStart,
                                       GamePortsEnd, in_use.game)
         IN  IF auth_port = None \/ game_port = None
             THEN [i \in DOMAIN svrs |-> None]
             ELSE AllocateAllOrNothing(svrs, indices, k + 1,
                    InsertPorts(in_use, Unwrap(auth_port), Unwrap(game_port)),
                    [details EXCEPT ![server_index] =
                        Some([auth_port |-> Unwrap(auth_port),
                              game_port |-> Unwrap(game_port)])])

\* The filter_map over restart_server_indices, in cluster order: a server gets
\* an auth port and then a game port, both are added to the in-use sets, and
\* the server is skipped when either is missing.
RECURSIVE AllocateAll(_, _, _, _, _)
AllocateAll(svrs, indices, k, in_use, details) ==
    IF k > Len(indices)
    THEN details
    ELSE IF indices[k] = None
    THEN AllocateAll(svrs, indices, k + 1, in_use, details)
    ELSE LET server_index == Unwrap(indices[k])
             server == svrs[server_index]
             auth_port == AllocatePort(server.config.auth_port, AuthPortsStart,
                                       AuthPortsEnd, in_use.auth)
             game_port == AllocatePort(server.config.game_port, GamePortsStart,
                                       GamePortsEnd, in_use.game)
         IN  IF auth_port = None \/ game_port = None
             THEN AllocateAll(svrs, indices, k + 1, in_use, details)
             ELSE AllocateAll(svrs, indices, k + 1,
                    InsertPorts(in_use, Unwrap(auth_port), Unwrap(game_port)),
                    [details EXCEPT ![server_index] =
                        Some([auth_port |-> Unwrap(auth_port),
                              game_port |-> Unwrap(game_port)])])

\* RestartServerDetails passing over the is_old servers.
RestartServerDetailsNotOld(svrs, indices) ==
    AllocateAll(svrs,
                [k \in DOMAIN indices |->
                    IF IsSome(indices[k]) /\ svrs[Unwrap(indices[k])].is_old
                    THEN None
                    ELSE indices[k]],
                1, PortsInUse(svrs), [i \in DOMAIN svrs |-> None])

RestartServerDetails(svrs, indices) ==
    AllocateAll(svrs, indices, 1, PortsInUse(svrs),
                [i \in DOMAIN svrs |-> None])

\* Mapped keeping the first entry of restart_server_details only.
MappedFirst(details) ==
    {i \in DOMAIN details :
        IsSome(details[i]) /\ \A j \in DOMAIN details : j < i => details[j] = None}

\* The servers whose start future calls Server::start: those with an entry in
\* restart_server_details.
Mapped(details) == {i \in DOMAIN details : IsSome(details[i])}

\* PollAllocate returning NoWork as soon as one queued server got no ports.
PollAllocateNoWorkWhenSkipped ==
    /\ pc = "phase_a"
    /\ restart_servers_futures = {}
    /\ LET details == RestartServerDetails(servers, restart_server_indices)
           mapped == Mapped(details)
           queued == {i \in DOMAIN servers : IsSome(restart_server_indices[i])}
       IN  /\ restart_server_details' = details
           /\ start_server_futures' = IF mapped = queued THEN mapped ELSE {}
           /\ IF mapped = {} \/ mapped # queued
              THEN pc' = "return" /\ status' = "NoWork"
              ELSE pc' = "phase_c" /\ status' = "None"
    /\ UNCHANGED <<servers, containers, created_count, now, op, args, poll_time,
                   restart_servers_futures, restart_server_indices,
                   restart_reason, scheduled_stop, start_server_results>>
    /\ UNCHANGED <<main_vars, side_vars>>

\* PollAllocate not waiting for the Phase A futures still to run.
PollAllocateEarly ==
    /\ pc = "phase_a"
    /\ LET details == RestartServerDetails(servers, restart_server_indices)
           mapped == Mapped(details)
       IN  /\ restart_server_details' = details
           /\ start_server_futures' = mapped
           /\ IF mapped = {}
              THEN pc' = "return" /\ status' = "NoWork"
              ELSE pc' = "phase_c" /\ status' = "None"
    /\ UNCHANGED <<servers, containers, created_count, now, op, args, poll_time,
                   restart_servers_futures, restart_server_indices,
                   restart_reason, scheduled_stop, start_server_results>>
    /\ UNCHANGED <<main_vars, side_vars>>

\* join_all has returned: the ports are allocated, and poll returns NoWork
\* when no server got any, or makes the start futures.
PollAllocate ==
    /\ pc = "phase_a"
    /\ restart_servers_futures = {}
    /\ LET details == RestartServerDetails(servers, restart_server_indices)
           mapped == Mapped(details)
       IN  /\ restart_server_details' = details
           /\ start_server_futures' = mapped
           /\ IF mapped = {}
              THEN pc' = "return" /\ status' = "NoWork"
              ELSE pc' = "phase_c" /\ status' = "None"
    /\ UNCHANGED <<servers, containers, created_count, now, op, args, poll_time,
                   restart_servers_futures, restart_server_indices,
                   restart_reason, scheduled_stop, start_server_results>>
    /\ UNCHANGED <<main_vars, side_vars>>


\* ------------------------------------------------------ poll: Phase C

\* How a call of Server::start can end: Ok, or the step that failed.
StartOutcomes ==
    {"Ok", "CreateRefused", "StartRefused", "ContainerDidntStart",
     "ContainerHasNoCreated", "ContainerHasNoIp", "ContainerCrashedWhileStarting"}

\* The outcomes that return after the engine started the container and while
\* it is still running.
LeavesContainer ==
    {"Ok", "ContainerDidntStart", "ContainerHasNoCreated", "ContainerHasNoIp"}

WithContainer(cs, container_id, created) ==
    [c \in DOMAIN cs \cup {container_id} |->
        IF c = container_id THEN created ELSE cs[c]]

\* Start setting the Running state as soon as the engine started the container.
StartRunningOnceStarted(server, auth_port, game_port, cs, count, created, outcome) ==
    IF outcome = "CreateRefused"
    THEN [server |-> server, containers |-> cs, created_count |-> count]
    ELSE [server |->
             IF outcome \in {"Ok", "ContainerDidntStart", "ContainerHasNoCreated",
                             "ContainerHasNoIp"}
             THEN [server EXCEPT !.state =
                     RunningServer(count + 1, auth_port, game_port, created)]
             ELSE server,
          containers |->
             IF outcome \in {"Ok", "ContainerDidntStart", "ContainerHasNoCreated",
                             "ContainerHasNoIp"}
             THEN [c \in DOMAIN cs \cup {count + 1} |->
                      IF c = count + 1 THEN created ELSE cs[c]]
             ELSE cs,
          created_count |-> count + 1]

\* Start with the time of the call's first instant for start_time.
StartAtEpoch(server, auth_port, game_port, cs, count, created, outcome) ==
    IF outcome = "CreateRefused"
    THEN [server |-> server, containers |-> cs, created_count |-> count]
    ELSE [server |->
             IF outcome = "Ok"
             THEN [server EXCEPT !.state =
                     RunningServer(count + 1, auth_port, game_port, 0)]
             ELSE server,
          containers |->
             IF outcome \in {"Ok", "ContainerDidntStart", "ContainerHasNoCreated",
                             "ContainerHasNoIp"}
             THEN [c \in DOMAIN cs \cup {count + 1} |->
                      IF c = count + 1 THEN 0 ELSE cs[c]]
             ELSE cs,
          created_count |-> count + 1]

\* Server::start.  The engine names the container it creates; created is the
\* creation time its inspect reports.  The state is set only on the Ok path.
Start(server, auth_port, game_port, cs, count, created, outcome) ==
    IF outcome = "CreateRefused"
    THEN [server |-> server, containers |-> cs, created_count |-> count]
    ELSE LET container_id == count + 1
         IN  [server |->
                 IF outcome = "Ok"
                 THEN [server EXCEPT !.state =
                         RunningServer(container_id, auth_port, game_port, created)]
                 ELSE server,
              containers |->
                 IF outcome \in LeavesContainer
                 THEN WithContainer(cs, container_id, created)
                 ELSE cs,
              created_count |-> count + 1]

\* One Phase C future runs to completion: Server::start with the ports of
\* restart_server_details; the last one to complete ends join_all.
PollStart(server_index) ==
    /\ pc = "phase_c"
    /\ server_index \in start_server_futures
    /\ \E outcome \in StartOutcomes :
         /\ created_count >= MaxContainers => outcome = "CreateRefused"
         /\ LET details == Unwrap(restart_server_details[server_index])
                r == Start(servers[server_index], details.auth_port,
                           details.game_port, containers, created_count, now,
                           outcome)
            IN  /\ servers' = [servers EXCEPT ![server_index] = r.server]
                /\ containers' = r.containers
                /\ created_count' = r.created_count
         /\ start_server_results' =
                [start_server_results EXCEPT ![server_index] =
                    IF outcome = "Ok" THEN "Ok" ELSE "Err"]
    /\ start_server_futures' = start_server_futures \ {server_index}
    /\ IF start_server_futures = {server_index}
       THEN pc' = "return" /\ status' = "DidWork"
       ELSE UNCHANGED <<pc, status>>
    /\ UNCHANGED <<now, op, args, poll_time, restart_servers_futures,
                   restart_server_indices, restart_reason, scheduled_stop,
                   restart_server_details>>
    /\ UNCHANGED <<main_vars, side_vars>>

\* The operation returns to the driver: its locals are gone.
Return ==
    /\ pc = "return"
    /\ pc' = "idle"
    /\ op' = "none"
    /\ new_servers' = << >>
    /\ name' = ""
    /\ stop_refused' = {}
    /\ no_created' = {}
    /\ poll_time' = 0
    /\ restart_servers_futures' = {}
    /\ restart_server_indices' = << >>
    /\ restart_reason' = << >>
    /\ scheduled_stop' = << >>
    /\ restart_server_details' = << >>
    /\ start_server_futures' = {}
    /\ start_server_results' = << >>
    /\ status' = "None"
    /\ supervisor' = IF supervisor \in {"first_poll", "poll"} /\ op = "poll"
                      THEN "recv"
                      ELSE supervisor
    /\ command' = IF op = "poll" \/ supervisor = "exit" THEN "None" ELSE command
    /\ UNCHANGED <<servers, containers, created_count, now, restore_file, side_vars>>

\* -------------------------------------- poll with the engine's answers fixed

\* What the engine answers the futures of one server during a poll: to the
\* stop requests and the probe of its Phase A future, and to the start of its
\* Phase C future.  An answer no path asks for is left at its first value.
EngineResponses ==
    {r \in [refuse_scheduled : BOOLEAN, has_ip : BOOLEAN, connects : BOOLEAN,
            refuse_frozen : BOOLEAN, outcome : StartOutcomes] :
        /\ ~r.has_ip => r.connects
        /\ r.connects => ~r.refuse_frozen}

\* The answers to a server that is NotRunning as poll is called: its Phase A
\* future asks the engine nothing.
NotRunningResponses ==
    {r \in EngineResponses :
        ~r.refuse_scheduled /\ r.has_ip /\ r.connects /\ ~r.refuse_frozen}

\* The engine is asked every answer of r that is not at its first value: a
\* server that is NotRunning or whose container is gone is not probed, a stop
\* for a scheduled restart is only requested once the restart has passed, and
\* only a server that Phase A queues is started.
Asked(server, server_index, cs, t, r) ==
    /\ (~IsRunning(server.state) \/ ~ContainerRunning(cs, server.state.container_id)) =>
          r \in NotRunningResponses
    /\ (IsRunning(server.state) /\ ~RestartPassed(server, t)) => ~r.refuse_scheduled
    /\ LivenessFuture(server, server_index, cs, t, r.refuse_scheduled, r.has_ip,
                      r.connects, r.refuse_frozen).index = None =>
          r.outcome = "CreateRefused"

\* The name the engine gives the container it creates for the server at
\* server_index, for a poll called with count containers created so far:
\* the names not given yet go to the servers whose create it accepts, whenever
\* their futures run.
ContainerIdFor(count, r, server_index) ==
    count + 1 + Cardinality({j \in 1..(server_index - 1) : r[j].outcome # "CreateRefused"})

\* poll is called, and what the engine is going to answer each server's
\* futures is settled, whenever they run.
PollBeginFixed ==
    /\ Idle
    /\ supervisor = "none"
    /\ pc' = "phase_a"
    /\ op' = "poll"
    /\ poll_time' = now
    /\ restart_servers_futures' = DOMAIN servers
    /\ restart_server_indices' = [i \in DOMAIN servers |-> None]
    /\ restart_reason' = [i \in DOMAIN servers |-> "Pending"]
    /\ scheduled_stop' = [i \in DOMAIN servers |-> "NotAttempted"]
    /\ restart_server_details' = [i \in DOMAIN servers |-> None]
    /\ start_server_futures' = {}
    /\ start_server_results' = [i \in DOMAIN servers |-> "NotStarted"]
    /\ status' = "None"
    /\ \E r \in [DOMAIN servers -> EngineResponses] :
          /\ \A i \in DOMAIN servers :
                /\ Asked(servers[i], i, containers, now, r[i])
                /\ ContainerIdFor(created_count, r, i) > MaxContainers =>
                      r[i].outcome = "CreateRefused"
          /\ responses' = r
    /\ entry' = Some([servers |-> servers, containers |-> containers,
                      created_count |-> created_count])
    /\ UNCHANGED <<servers, containers, created_count, now, args>>
    /\ UNCHANGED <<main_vars, or_vars, build_vars, stop_calls>>

\* PollLivenessFixed with what the futures return collected in the order they
\* complete.
PollLivenessFixedAsCompleted(server_index) ==
    /\ pc = "phase_a"
    /\ op = "poll"
    /\ server_index \in restart_servers_futures
    /\ LET r == LivenessFuture(servers[server_index], server_index, containers,
                               poll_time, responses[server_index].refuse_scheduled,
                               responses[server_index].has_ip,
                               responses[server_index].connects,
                               responses[server_index].refuse_frozen)
           k == Len(servers) - Cardinality(restart_servers_futures) + 1
       IN  /\ servers' = [servers EXCEPT ![server_index] = r.server]
           /\ containers' = r.containers
           /\ restart_server_indices' = [restart_server_indices EXCEPT ![k] = r.index]
           /\ restart_reason' = [restart_reason EXCEPT ![server_index] = r.reason]
           /\ scheduled_stop' = [scheduled_stop EXCEPT ![server_index] = r.scheduled]
    /\ restart_servers_futures' = restart_servers_futures \ {server_index}
    /\ UNCHANGED <<created_count, now, pc, op, args, poll_time,
                   restart_server_details, start_server_futures,
                   start_server_results, status>>
    /\ UNCHANGED <<main_vars, side_vars>>

\* One Phase A future runs to completion, the engine answering as settled.
PollLivenessFixed(server_index) ==
    /\ pc = "phase_a"
    /\ op = "poll"
    /\ server_index \in restart_servers_futures
    /\ LET r == LivenessFuture(servers[server_index], server_index, containers,
                               poll_time, responses[server_index].refuse_scheduled,
                               responses[server_index].has_ip,
                               responses[server_index].connects,
                               responses[server_index].refuse_frozen)
       IN  /\ servers' = [servers EXCEPT ![server_index] = r.server]
           /\ containers' = r.containers
           /\ restart_server_indices' =
                  [restart_server_indices EXCEPT ![server_index] = r.index]
           /\ restart_reason' = [restart_reason EXCEPT ![server_index] = r.reason]
           /\ scheduled_stop' = [scheduled_stop EXCEPT ![server_index] = r.scheduled]
    /\ restart_servers_futures' = restart_servers_futures \ {server_index}
    /\ UNCHANGED <<created_count, now, pc, op, args, poll_time,
                   restart_server_details, start_server_futures,
                   start_server_results, status>>
    /\ UNCHANGED <<main_vars, side_vars>>

\* One Phase C future runs to completion, the engine answering as settled.
PollStartFixed(server_index) ==
    /\ pc = "phase_c"
    /\ op = "poll"
    /\ server_index \in start_server_futures
    /\ LET details == Unwrap(restart_server_details[server_index])
           outcome == responses[server_index].outcome
           container_id == ContainerIdFor(Unwrap(entry).created_count, responses,
                                          server_index)
           r == Start(servers[server_index], details.auth_port, details.game_port,
                      containers, container_id - 1, now, outcome)
       IN  /\ servers' = [servers EXCEPT ![server_index] = r.server]
           /\ containers' = r.containers
           /\ created_count' = IF r.created_count > created_count /\ outcome # "CreateRefused"
                               THEN r.created_count
                               ELSE created_count
           /\ start_server_results' =
                  [start_server_results EXCEPT ![server_index] =
                      IF outcome = "Ok" THEN "Ok" ELSE "Err"]
    /\ start_server_futures' = start_server_futures \ {server_index}
    /\ IF start_server_futures = {server_index}
       THEN pc' = "return" /\ status' = "DidWork"
       ELSE UNCHANGED <<pc, status>>
    /\ UNCHANGED <<now, op, args, poll_time, restart_servers_futures,
                   restart_server_indices, restart_reason, scheduled_stop,
                   restart_server_details>>
    /\ UNCHANGED <<main_vars, side_vars>>

\* The operation returns to the driver: its locals are gone, and the engine
\* answers the next poll as it likes.
ReturnFixed ==
    /\ pc = "return"
    /\ pc' = "idle"
    /\ op' = "none"
    /\ new_servers' = << >>
    /\ name' = ""
    /\ stop_refused' = {}
    /\ no_created' = {}
    /\ poll_time' = 0
    /\ restart_servers_futures' = {}
    /\ restart_server_indices' = << >>
    /\ restart_reason' = << >>
    /\ scheduled_stop' = << >>
    /\ restart_server_details' = << >>
    /\ start_server_futures' = {}
    /\ start_server_results' = << >>
    /\ status' = "None"
    /\ responses' = << >>
    /\ entry' = None
    /\ UNCHANGED <<servers, containers, created_count, now>>
    /\ UNCHANGED <<main_vars, or_vars, build_vars, stop_calls>>

\* ---------------------------------------------- Server::stop, step by step

\* The engine calls of a stop with one more answer; past MaxStopCalls the
\* last answer takes the place of the one before.
Answered(calls, answer) ==
    IF Len(calls) < MaxStopCalls
    THEN Append(calls, answer)
    ELSE [calls EXCEPT ![Len(calls)] = answer]

\* stop is called on the server of the cluster: a server that is NotRunning
\* is set NotRunning and stop returns; for a Running server the stop request
\* is next.
StopCall ==
    /\ Idle
    /\ Len(servers) = 1
    /\ op' = "stop"
    /\ name' = servers[1].id
    /\ stop_calls' = << >>
    /\ IF IsRunning(servers[1].state)
       THEN pc' = "stop_request" /\ servers' = servers
       ELSE pc' = "return" /\ servers' = [servers EXCEPT ![1].state = NotRunning]
    /\ UNCHANGED <<containers, created_count, now, new_servers, stop_refused,
                   no_created, poll_vars>>
    /\ UNCHANGED <<main_vars, or_vars, build_vars, fixed_vars>>

\* docker.stop_container(..).await: on an error, which is also what the
\* engine answers for a container it does not know, stop returns.
StopRequest(refuse) ==
    /\ pc = "stop_request"
    /\ IF refuse \/ servers[1].state.container_id \notin DOMAIN containers
       THEN /\ stop_calls' = Answered(stop_calls, "stop_container: Err")
            /\ pc' = "return"
       ELSE /\ stop_calls' = Answered(stop_calls, "stop_container: Ok")
            /\ pc' = "stop_inspect"
    /\ UNCHANGED <<servers, containers, created_count, now, op, args, poll_vars>>
    /\ UNCHANGED <<main_vars, or_vars, build_vars, fixed_vars>>

\* StopInspect taking the first answer for the last, whatever it is.
StopInspectOnce ==
    /\ pc = "stop_inspect"
    /\ stop_calls' = Answered(stop_calls,
                              IF servers[1].state.container_id \in DOMAIN containers
                              THEN "inspect_container: Ok"
                              ELSE "inspect_container: Err")
    /\ pc' = "return"
    /\ servers' = [servers EXCEPT ![1].state = NotRunning]
    /\ UNCHANGED <<containers, created_count, now, op, args, poll_vars>>
    /\ UNCHANGED <<main_vars, or_vars, build_vars, fixed_vars>>

\* One turn of the loop: docker.inspect_container(..).await.is_err() breaks
\* the loop, the state is set and stop returns; otherwise stop sleeps.
StopInspect ==
    /\ pc = "stop_inspect"
    /\ IF servers[1].state.container_id \in DOMAIN containers
       THEN /\ stop_calls' = Answered(stop_calls, "inspect_container: Ok")
            /\ pc' = "stop_sleep"
            /\ servers' = servers
       ELSE /\ stop_calls' = Answered(stop_calls, "inspect_container: Err")
            /\ pc' = "return"
            /\ servers' = [servers EXCEPT ![1].state = NotRunning]
    /\ UNCHANGED <<containers, created_count, now, op, args, poll_vars>>
    /\ UNCHANGED <<main_vars, or_vars, build_vars, fixed_vars>>

\* sleep(Duration::from_millis(100)).await
StopSleep ==
    /\ pc = "stop_sleep"
    /\ pc' = "stop_inspect"
    /\ UNCHANGED <<servers, containers, created_count, now, op, args, poll_vars>>
    /\ UNCHANGED <<main_vars, side_vars>>

\* The engine, having accepted the stop request, stops the container and
\* removes it (auto_remove).
EngineRemoves ==
    /\ pc \in {"stop_inspect", "stop_sleep"}
    /\ servers[1].state.container_id \in DOMAIN containers
    /\ containers' = WithoutContainer(containers, servers[1].state.container_id)
    /\ UNCHANGED <<servers, created_count, now, pc, op, args, poll_vars>>
    /\ UNCHANGED <<main_vars, side_vars>>

\* ------------------------------------------------------ the environment

\* A container exits by itself (auto_remove: the engine forgets it), at any
\* moment but the instant an operation returns.
ContainerCrash(container_id) ==
    /\ pc # "return"
    /\ container_id \in DOMAIN containers
    /\ containers' = WithoutContainer(containers, container_id)
    /\ UNCHANGED <<servers, created_count, now, pc, op, args, poll_vars>>
    /\ UNCHANGED <<main_vars, side_vars>>

\* Time passes between two operations of the driver.
Tick ==
    /\ Idle
    /\ now < MaxTime
    /\ now' = now + 1
    /\ UNCHANGED <<servers, containers, created_count, pc, op, args, poll_vars>>
    /\ UNCHANGED <<main_vars, side_vars>>

\* ------------------------------------------- serialize and deserialize

\* serialize with the records pushed to the front: the last Running server's
\* record comes first.
SerializeLastFirst(svrs) ==
    LET running == SelectSeq(svrs, LAMBDA server : IsRunning(server.state))
        n == Len(running)
    IN  [k \in DOMAIN running |->
            [name |-> running[n + 1 - k].id,
             container_id |-> running[n + 1 - k].state.container_id,
             auth_port |-> running[n + 1 - k].state.auth_port,
             game_port |-> running[n + 1 - k].state.game_port]]

\* ServerCluster::serialize: one record per Running server, in cluster order.
Serialize(svrs) ==
    LET running == SelectSeq(svrs, LAMBDA server : IsRunning(server.state))
    IN  [k \in DOMAIN running |->
            [name |-> running[k].id,
             container_id |-> running[k].state.container_id,
             auth_port |-> running[k].state.auth_port,
             game_port |-> running[k].state.game_port]]

\* deserialize returning after the first record it has applied.
RECURSIVE DeserializeOne(_, _, _, _, _)
DeserializeOne(svrs, serialized_servers, k, cs, without_created) ==
    IF k > Len(serialized_servers)
    THEN svrs
    ELSE LET serialized_server == serialized_servers[k]
             j == IF \E i \in DOMAIN svrs : svrs[i].id = serialized_server.name
                  THEN CHOOSE i \in DOMAIN svrs : svrs[i].id = serialized_server.name
                  ELSE 0
         IN  IF \/ j = 0
                \/ serialized_server.container_id \notin DOMAIN cs
                \/ k \in without_created
             THEN DeserializeOne(svrs, serialized_servers, k + 1, cs, without_created)
             ELSE [svrs EXCEPT ![j].state =
                      RunningServer(serialized_server.container_id,
                                    serialized_server.auth_port,
                                    serialized_server.game_port,
                                    cs[serialized_server.container_id])]

\* deserialize without the test of the inspect response: a record is applied
\* whether or not its container is running.
RECURSIVE DeserializeUninspected(_, _, _, _, _)
DeserializeUninspected(svrs, serialized_servers, k, cs, without_created) ==
    IF k > Len(serialized_servers)
    THEN svrs
    ELSE LET serialized_server == serialized_servers[k]
             j == IF \E i \in DOMAIN svrs : svrs[i].id = serialized_server.name
                  THEN CHOOSE i \in DOMAIN svrs : svrs[i].id = serialized_server.name
                  ELSE 0
             created == IF serialized_server.container_id \in DOMAIN cs
                        THEN cs[serialized_server.container_id]
                        ELSE 0
         IN  IF j = 0 \/ k \in without_created
             THEN DeserializeUninspected(svrs, serialized_servers, k + 1, cs,
                                         without_created)
             ELSE DeserializeUninspected(
                    [svrs EXCEPT ![j].state =
                        RunningServer(serialized_server.container_id,
                                      serialized_server.auth_port,
                                      serialized_server.game_port, created)],
                    serialized_servers, k + 1, cs, without_created)

\* ServerCluster::deserialize, from record k on.  without_created: the
\* indices of the records whose inspect response has no valid created time.
RECURSIVE Deserialize(_, _, _, _, _)
Deserialize(svrs, serialized_servers, k, cs, without_created) ==
    IF k > Len(serialized_servers)
    THEN svrs
    ELSE LET serialized_server == serialized_servers[k]
             j == FindServer(svrs, serialized_server.name)
         IN  IF j = 0
             THEN Deserialize(svrs, serialized_servers, k + 1, cs, without_created)
             ELSE IF ~ContainerRunning(cs, serialized_server.container_id)
             THEN Deserialize(svrs, serialized_servers, k + 1, cs, without_created)
             ELSE IF k \in without_created
             THEN Deserialize(svrs, serialized_servers, k + 1, cs, without_created)
             ELSE Deserialize(
                    [svrs EXCEPT ![j].state =
                        RunningServer(serialized_server.container_id,
                                      serialized_server.auth_port,
                                      serialized_server.game_port,
                                      cs[serialized_server.container_id])],
                    serialized_servers, k + 1, cs, without_created)

\* ------------------------------------------------------------------ main

\* The records main gets from the restore file: those of a file that is there
\* and parses, none otherwise.
LoadSerializedServers(file) ==
    IF file.present /\ file.parsable THEN file.records ELSE << >>

\* main going to the loop with the servers of the config as they are made:
\* the restore file is read and removed, its records are not applied.
StartUpUnrestored(list, config_ok, remove_ok, without_created) ==
    /\ supervisor \in {"boot", "exit"}
    /\ Idle
    /\ IF ~config_ok
       THEN /\ supervisor' = "exit"
            /\ UNCHANGED <<cluster_vars, restore_file>>
       ELSE /\ restore_file' =
                  IF restore_file.present /\ restore_file.parsable /\ remove_ok
                  THEN [present |-> FALSE, parsable |-> FALSE, records |-> << >>]
                  ELSE restore_file
            /\ servers' = list
            /\ no_created' = {}
            /\ new_servers' = list
            /\ op' = "deserialize"
            /\ pc' = "return"
            /\ supervisor' = "first_poll"
            /\ UNCHANGED <<containers, created_count, now, name, stop_refused,
                           poll_vars>>
    /\ UNCHANGED <<command, side_vars>>

\* main up to the server thread's loop.  config_ok: the config file is read
\* and parsed; remove_ok: remove_file succeeds.  The restore file is read,
\* removed when it was read, the servers of the config are made and the
\* restore records applied to them.
StartUp(list, config_ok, remove_ok, without_created) ==
    /\ supervisor \in {"boot", "exit"}
    /\ Idle
    /\ IF ~config_ok
       THEN /\ supervisor' = "exit"
            /\ UNCHANGED <<cluster_vars, restore_file>>
       ELSE LET records == LoadSerializedServers(restore_file)
            IN  /\ restore_file' =
                      IF restore_file.present /\ restore_file.parsable /\ remove_ok
                      THEN NoFile
                      ELSE restore_file
                /\ servers' = Deserialize(list, records, 1, containers,
                                          without_created \cap DOMAIN records)
                /\ no_created' = without_created \cap DOMAIN records
                /\ new_servers' = list
                /\ op' = "deserialize"
                /\ pc' = "return"
                /\ supervisor' = "first_poll"
                /\ UNCHANGED <<containers, created_count, now, name, stop_refused,
                               poll_vars>>
    /\ UNCHANGED <<command, side_vars>>

\* recv_timeout returns Timeout: the loop continues with a poll.
RecvTimeout ==
    /\ supervisor = "recv"
    /\ Idle
    /\ supervisor' = "poll"
    /\ UNCHANGED <<cluster_vars, restore_file, command, side_vars>>

\* The StopAll handler without its break: the loop goes on to the next poll.
HandleStopAllAndGoOn(refused) ==
    /\ supervisor = "recv"
    /\ Idle
    /\ LET r == StopEach(servers, containers, 1, FALSE, refused)
       IN  /\ servers' = r.servers
           /\ containers' = r.containers
    /\ stop_refused' = Refusals(servers, containers, DOMAIN servers, refused)
    /\ op' = "stop_all"
    /\ pc' = "return"
    /\ command' = "StopAll"
    /\ supervisor' = "poll"
    /\ UNCHANGED <<created_count, now, new_servers, name, no_created, poll_vars>>
    /\ UNCHANGED <<restore_file, side_vars>>

\* ReplCommand::StopAll: stop_all, break.
HandleStopAll(refused) ==
    /\ supervisor = "recv"
    /\ Idle
    /\ LET r == StopEach(servers, containers, 1, FALSE, refused)
       IN  /\ servers' = r.servers
           /\ containers' = r.containers
    /\ stop_refused' = Refusals(servers, containers, DOMAIN servers, refused)
    /\ op' = "stop_all"
    /\ pc' = "return"
    /\ command' = "StopAll"
    /\ supervisor' = "exit"
    /\ UNCHANGED <<created_count, now, new_servers, name, no_created, poll_vars>>
    /\ UNCHANGED <<restore_file, side_vars>>

\* The StopWraith handler calling stop_all, accepted by the engine, after it
\* has stored the records.
HandleStopWraithStopping(write_ok) ==
    /\ supervisor = "recv"
    /\ Idle
    /\ restore_file' =
          IF write_ok
          THEN [present |-> TRUE, parsable |-> TRUE, records |-> Serialize(servers)]
          ELSE restore_file
    /\ LET r == StopEach(servers, containers, 1, FALSE, {})
       IN  /\ servers' = r.servers
           /\ containers' = r.containers
    /\ op' = "serialize"
    /\ pc' = "return"
    /\ command' = "StopWraith"
    /\ supervisor' = "exit"
    /\ UNCHANGED <<created_count, now, args, poll_vars>>
    /\ UNCHANGED side_vars

\* ReplCommand::StopWraith: store_serialized_servers, break.  write_ok: the
\* file is written.
HandleStopWraith(write_ok) ==
    /\ supervisor = "recv"
    /\ Idle
    /\ restore_file' =
          IF write_ok
          THEN [present |-> TRUE, parsable |-> TRUE, records |-> Serialize(servers)]
          ELSE restore_file
    /\ op' = "serialize"
    /\ pc' = "return"
    /\ command' = "StopWraith"
    /\ supervisor' = "exit"
    /\ UNCHANGED <<servers, containers, created_count, now, args, poll_vars>>
    /\ UNCHANGED side_vars

\* ReplCommand::SetServers: load_servers; the loop continues.
HandleSetServers(list) ==
    /\ supervisor = "recv"
    /\ Idle
    /\ servers' = LoadServersResult(servers, list)
    /\ op' = "load_servers"
    /\ new_servers' = list
    /\ pc' = "return"
    /\ command' = "SetServers"
    /\ supervisor' = "poll"
    /\ UNCHANGED <<containers, created_count, now, name, stop_refused, no_created,
                   poll_vars>>
    /\ UNCHANGED <<restore_file, side_vars>>

\* ReplCommand::StopOld: stop_old; the loop continues.
HandleStopOld(refused) ==
    /\ supervisor = "recv"
    /\ Idle
    /\ LET r == StopEach(servers, containers, 1, TRUE, refused)
       IN  /\ servers' = RetainNotOld(r.servers)
           /\ containers' = r.containers
    /\ stop_refused' =
          Refusals(servers, containers, {k \in DOMAIN servers : servers[k].is_old},
                   refused)
    /\ op' = "stop_old"
    /\ pc' = "return"
    /\ command' = "StopOld"
    /\ supervisor' = "poll"
    /\ UNCHANGED <<created_count, now, new_servers, name, no_created, poll_vars>>
    /\ UNCHANGED <<restore_file, side_vars>>

\* The RestartAll handler ending with a break, as the StopAll handler does.
HandleRestartAllBreaks(refused) ==
    /\ supervisor = "recv"
    /\ Idle
    /\ LET r == StopEach(servers, containers, 1, FALSE, refused)
       IN  /\ servers' = r.servers
           /\ containers' = r.containers
    /\ stop_refused' = Refusals(servers, containers, DOMAIN servers, refused)
    /\ op' = "stop_all"
    /\ pc' = "return"
    /\ command' = "RestartAll"
    /\ supervisor' = "exit"
    /\ UNCHANGED <<created_count, now, new_servers, name, no_created, poll_vars>>
    /\ UNCHANGED <<restore_file, side_vars>>

\* ReplCommand::RestartAll: stop_all; the loop continues.
HandleRestartAll(refused) ==
    /\ supervisor = "recv"
    /\ Idle
    /\ LET r == StopEach(servers, containers, 1, FALSE, refused)
       IN  /\ servers' = r.servers
           /\ containers' = r.containers
    /\ stop_refused' = Refusals(servers, containers, DOMAIN servers, refused)
    /\ op' = "stop_all"
    /\ pc' = "return"
    /\ command' = "RestartAll"
    /\ supervisor' = "poll"
    /\ UNCHANGED <<created_count, now, new_servers, name, no_created, poll_vars>>
    /\ UNCHANGED <<restore_file, side_vars>>

\* The Restart handler stopping every server, whatever the name.
HandleRestartEvery(server_name, refuse) ==
    /\ supervisor = "recv"
    /\ Idle
    /\ LET r == StopEach(servers, containers, 1, FALSE,
                         IF refuse THEN DOMAIN servers ELSE {})
       IN  /\ servers' = r.servers
           /\ containers' = r.containers
    /\ stop_refused' =
          Refusals(servers, containers, DOMAIN servers,
                   IF refuse THEN DOMAIN servers ELSE {})
    /\ op' = "stop"
    /\ name' = server_name
    /\ pc' = "return"
    /\ command' = "Restart"
    /\ supervisor' = "poll"
    /\ UNCHANGED <<created_count, now, new_servers, no_created, poll_vars>>
    /\ UNCHANGED <<restore_file, side_vars>>

\* ReplCommand::Restart(server_name): the named server, when there is one, is
\* stopped; the loop continues.
HandleRestart(server_name, refuse) ==
    /\ supervisor = "recv"
    /\ Idle
    /\ LET j == FindServer(servers, server_name)
       IN  IF j = 0
           THEN UNCHANGED <<servers, containers>>
           ELSE LET r == Stop(servers[j], containers, refuse)
                IN  /\ servers' = [servers EXCEPT ![j] = r.server]
                    /\ containers' = r.containers
    /\ stop_refused' =
          Refusals(servers, containers, {FindServer(servers, server_name)} \ {0},
                   IF refuse THEN DOMAIN servers ELSE {})
    /\ op' = "stop"
    /\ name' = server_name
    /\ pc' = "return"
    /\ command' = "Restart"
    /\ supervisor' = "poll"
    /\ UNCHANGED <<created_count, now, new_servers, no_created, poll_vars>>
    /\ UNCHANGED <<restore_file, side_vars>>

\* ------------------------------------------------- PlaylistOverrides::or

\* Option::or
OptionOr(a, b) == IF IsSome(a) THEN a ELSE b

\* or with the receivers of Option::or exchanged: other's value wins.
PlaylistOrOtherFirst(a, b) ==
    [riffs |-> b.riffs \cup a.riffs,
     match_classic_mp_enabled |->
        OptionOr(b.match_classic_mp_enabled, a.match_classic_mp_enabled),
     match_max_players |-> OptionOr(b.match_max_players, a.match_max_players),
     pilot_bleedout_mode |-> OptionOr(b.pilot_bleedout_mode, a.pilot_bleedout_mode)]

\* PlaylistOverrides::or
PlaylistOr(a, b) ==
    [riffs |-> b.riffs \cup a.riffs,
     match_classic_mp_enabled |->
        OptionOr(a.match_classic_mp_enabled, b.match_classic_mp_enabled),
     match_max_players |-> OptionOr(a.match_max_players, b.match_max_players),
     pilot_bleedout_mode |-> OptionOr(a.pilot_bleedout_mode, b.pilot_bleedout_mode)]

\* self.or(other) is called.
CallOr ==
    /\ or_result = None
    /\ or_result' = Some(PlaylistOr(self_overrides, other))
    /\ UNCHANGED <<cluster_vars, main_vars, self_overrides, other, build_vars, fixed_vars, stop_calls>>

\* ------------------------------------------------------------ ArgBuilder

\* LinkedHashMap, as the sequence of its entries <<key, value>> in order.
MapRemove(m, k) == SelectSeq(m, LAMBDA e : e[1] # k)

\* insert: a key the map holds already gets the value and the last place.
MapInsert(m, k, v) == Append(MapRemove(m, k), <<k, v>>)

RECURSIVE MapExtend(_, _)
MapExtend(m, entries) ==
    IF entries = << >>
    THEN m
    ELSE MapExtend(MapInsert(m, Head(entries)[1], Head(entries)[2]), Tail(entries))

\* IntoVarValue for bool: (self as u8).to_string()
BoolVarValue(b) == IF b THEN "1" ELSE "0"

\* IntoVarValue for u16 and u32
NumberVarValue(n) == ToString(n)

StringVarValue(s) == s

\* into_var_value of a value of the given kind of type.
IntoVarValue(kind, value) ==
    IF kind = "bool" THEN BoolVarValue(value)
    ELSE IF kind = "number" THEN NumberVarValue(value)
    ELSE StringVarValue(value)

\* IntoVarValue for Option<T>
OptionVarValue(o, kind) == IF IsSome(o) THEN Some(IntoVarValue(kind, Unwrap(o))) ELSE None

SetFlag(builder, key, is_enabled) ==
    [builder EXCEPT !.flag_args = IF is_enabled THEN @ \cup {key} ELSE @ \ {key}]

\* set_kv_env, set_kv and set_playlist_var, on the Option into_var_value gave.
SetKvEnv(builder, key, value) ==
    [builder EXCEPT !.kv_env_args =
        IF IsSome(value) THEN MapInsert(@, key, Unwrap(value)) ELSE MapRemove(@, key)]

SetKv(builder, key, value) ==
    [builder EXCEPT !.kv_args =
        IF IsSome(value) THEN MapInsert(@, key, Unwrap(value)) ELSE MapRemove(@, key)]

SetPlaylistVar(builder, key, value) ==
    [builder EXCEPT !.playlist_vars =
        IF IsSome(value) THEN MapInsert(@, key, Unwrap(value)) ELSE MapRemove(@, key)]

\* ArgBuilder::new
NewArgBuilder ==
    SetKv([kv_env_args |-> << >>, flag_args |-> {}, kv_args |-> << >>,
           playlist_vars |-> << >>],
          "+spewlog_enable", Some(BoolVarValue(FALSE)))

SetName(builder, server_name) == SetKvEnv(builder, "NS_SERVER_NAME", Some(server_name))

SetAuthPort(builder, auth_port) ==
    SetKvEnv(builder, "NS_PORT_AUTH", Some(NumberVarValue(auth_port)))

SetGamePort(builder, game_port) ==
    SetKvEnv(builder, "NS_PORT", Some(NumberVarValue(game_port)))

SetReportToMaster(builder, report_to_master) ==
    SetKvEnv(builder, "NS_MASTERSERVER_REGISTER", Some(BoolVarValue(report_to_master)))

SetGraphicsMode(builder, graphics_mode) ==
    SetFlag(builder, "-softwared3d11", graphics_mode = "Software")

SetMap(builder, map) == SetKv(builder, "+map", OptionVarValue(map, "String"))

RiffValue(exists) == IF exists THEN Some(TRUE) ELSE None

PilotBleedoutValue(value) == IF value = "Default" THEN 0 ELSE IF value = "Disabled" THEN 1 ELSE 2

\* pilot_bleedout_mode.map(|value| match value { .. })
PilotBleedoutMap(o) == IF IsSome(o) THEN Some(PilotBleedoutValue(Unwrap(o))) ELSE None

SetPlaylistOverrides(builder, playlist_overrides) ==
    LET b1 == SetPlaylistVar(builder, "riff_floorislava",
                  OptionVarValue(RiffValue("FloorIsLava" \in playlist_overrides.riffs),
                                 "bool"))
        b2 == SetPlaylistVar(b1, "featured_mode_all_holopilot",
                  OptionVarValue(RiffValue("AllHolopilot" \in playlist_overrides.riffs),
                                 "bool"))
        b3 == SetPlaylistVar(b2, "classic_mp",
                  OptionVarValue(playlist_overrides.match_classic_mp_enabled, "bool"))
        b4 == SetPlaylistVar(b3, "max_players",
                  OptionVarValue(playlist_overrides.match_max_players, "number"))
        b5 == SetFlag(b4, "-maxplayersplaylist", IsSome(playlist_overrides.match_max_players))
    IN  SetPlaylistVar(b5, "riff_player_bleedout",
            OptionVarValue(PilotBleedoutMap(playlist_overrides.pilot_bleedout_mode),
                           "number"))

AddExtraPlaylistVars(builder, extra_playlist_vars) ==
    [builder EXCEPT !.playlist_vars = MapExtend(@, extra_playlist_vars)]

RECURSIVE AddExtraVars(_, _)
AddExtraVars(builder, extra_vars) ==
    IF extra_vars = << >>
    THEN builder
    ELSE AddExtraVars(
            [builder EXCEPT !.kv_args =
                MapInsert(@, "+" \o Head(extra_vars)[1], Head(extra_vars)[2])],
            Tail(extra_vars))

SetGameConfig(builder, game_config) ==
    LET b1 == SetReportToMaster(builder, game_config.report_to_master)
        b2 == SetGraphicsMode(b1, game_config.graphics_mode)
        b3 == SetMap(b2, game_config.map)
        b4 == SetPlaylistOverrides(b3, game_config.playlist_overrides)
        b5 == AddExtraPlaylistVars(b4, game_config.extra_playlist_vars)
    IN  AddExtraVars(b5, game_config.extra_vars)

\* flat_map(|(key, value)| [key, value])
RECURSIVE Flatten(_)
Flatten(m) ==
    IF m = << >> THEN << >> ELSE <<Head(m)[1], Head(m)[2]>> \o Flatten(Tail(m))

\* [String]::join
RECURSIVE Join(_, _)
Join(strings, separator) ==
    IF strings = << >> THEN ""
    ELSE IF Len(strings) = 1 THEN strings[1]
    ELSE strings[1] \o separator \o Join(Tail(strings), separator)

\* build's extra_args without the token of the playlist vars when there are
\* none.
ExtraArgsNoEmptyToken(builder, flags) ==
    flags \o Flatten(builder.kv_args) \o <<"+setplaylistvaroverrides">>
          \o (IF builder.playlist_vars = << >>
              THEN << >>
              ELSE <<Join(Flatten(builder.playlist_vars), " ")>>)

\* build's extra_args; flags: flag_args in the order the HashSet yields them.
ExtraArgs(builder, flags) ==
    flags \o Flatten(builder.kv_args) \o <<"+setplaylistvaroverrides">>
          \o <<Join(Flatten(builder.playlist_vars), " ")>>

\* format!("\"{}\"", arg)
Quoted(arg) == "\"" \o arg \o "\""

\* build's env_args once NS_EXTRA_ARGUMENTS is inserted.
EnvArgs(builder, tokens) ==
    MapInsert(builder.kv_env_args, "NS_EXTRA_ARGUMENTS",
              Join([k \in DOMAIN tokens |-> Quoted(tokens[k])], " "))

\* The orders a HashSet can yield its elements in.
Orders(set) ==
    {order \in [1..Cardinality(set) -> set] :
        \A i, j \in DOMAIN order : i # j => order[i] # order[j]}

\* Server::start makes the builder of its server: new, set_name,
\* set_auth_port, set_game_port, set_game_config.
MakeArgBuilder ==
    /\ IsSome(filled_config)
    /\ arg_builder = None
    /\ LET config == Unwrap(filled_config)
       IN  arg_builder' =
              Some(SetGameConfig(
                      SetGamePort(SetAuthPort(SetName(NewArgBuilder, config.name),
                                              config.auth_port),
                                  config.game_port),
                      config.game_config))
    /\ UNCHANGED <<cluster_vars, main_vars, or_vars, filled_config, extra_args, out_envs, fixed_vars, stop_calls>>

\* ArgBuilder::build, into an empty out_envs.
Build ==
    /\ IsSome(arg_builder)
    /\ out_envs = None
    /\ \E flags \in Orders(Unwrap(arg_builder).flag_args) :
          LET tokens == ExtraArgs(Unwrap(arg_builder), flags)
              env_args == EnvArgs(Unwrap(arg_builder), tokens)
          IN  /\ extra_args' = tokens
              /\ out_envs' = Some([k \in DOMAIN env_args |->
                                      env_args[k][1] \o "=" \o env_args[k][2]])
    /\ UNCHANGED <<cluster_vars, main_vars, or_vars, filled_config, arg_builder, fixed_vars, stop_calls>>

\* ------------------------------------------------------ specification

\* What the driver and the engine do, whatever the configs are.
ClusterStep ==
    \/ \E refused \in SUBSET Stoppable(servers, containers) : StopOld(refused)
    \/ \E refused \in SUBSET Stoppable(servers, containers) : StopAll(refused)
    \/ \E id \in Ids, refuse \in BOOLEAN : StopByName(id, refuse)
    \/ PollBegin
    \/ \E server_index \in DOMAIN servers : PollLiveness(server_index)
    \/ PollAllocate
    \/ \E server_index \in DOMAIN servers : PollStart(server_index)
    \/ Return
    \/ \E container_id \in DOMAIN containers : ContainerCrash(container_id)

\* The cluster under configs that pin ports and have no restart schedule: no
\* operation reads the clock, which stands still.
Next ==
    \/ \E list \in NewServerLists : LoadServers(list)
    \/ ClusterStep

Spec == Init /\ [][Next]_vars

\* The cluster under configs with a restart schedule, and a clock that runs.
ScheduleNext ==
    \/ \E list \in ScheduledServerLists : LoadServers(list)
    \/ ClusterStep
    \/ Tick

SpecSchedule == Init /\ [][ScheduleNext]_vars

\* The configs the config file of main declares: no port pinned, or the game
\* port pinned inside the pool.
MainConfigs ==
    {c \in Configs : c.auth_port = None /\ c.game_port \in {None, Some(GamePortsStart)}}

MainServerLists == ServerLists(MainConfigs)

\* main: the process starts with or without a restore file on disk, runs the
\* server thread's loop and exits; it can be started again.
MainInit ==
    /\ NewCluster
    /\ supervisor = "boot"
    /\ restore_file \in {NoFile, UnparsableFile}
    /\ command = "None"
    /\ self_overrides = DefaultOverrides
    /\ other = DefaultOverrides
    /\ or_result = None
    /\ NoArgBuilder
    /\ NoFixedPoll
    /\ stop_calls = << >>

MainNext ==
    \/ \E list \in MainServerLists, config_ok, remove_ok \in BOOLEAN, without_created \in SUBSET DOMAIN LoadSerializedServers(restore_file) : StartUp(list, config_ok, remove_ok, without_created)
    \/ PollBegin
    \/ \E server_index \in DOMAIN servers : PollLiveness(server_index)
    \/ PollAllocate
    \/ \E server_index \in DOMAIN servers : PollStart(server_index)
    \/ Return
    \/ RecvTimeout
    \/ \E refused \in SUBSET Stoppable(servers, containers) : HandleStopAll(refused)
    \/ \E write_ok \in BOOLEAN : HandleStopWraith(write_ok)
    \/ \E list \in MainServerLists : HandleSetServers(list)
    \/ \E refused \in SUBSET Stoppable(servers, containers) : HandleStopOld(refused)
    \/ \E refused \in SUBSET Stoppable(servers, containers) : HandleRestartAll(refused)
    \/ \E server_name \in Ids, refuse \in BOOLEAN : HandleRestart(server_name, refuse)
    \/ \E container_id \in DOMAIN containers : ContainerCrash(container_id)

SpecMain == MainInit /\ [][MainNext]_vars

\* PlaylistOverrides::or called once, on any two values.
OrInit ==
    /\ NewCluster
    /\ supervisor = "none"
    /\ restore_file = NoFile
    /\ command = "None"
    /\ self_overrides \in PlaylistOverridesValues
    /\ other \in PlaylistOverridesValues
    /\ or_result = None
    /\ NoArgBuilder
    /\ NoFixedPoll
    /\ stop_calls = << >>

OrNext == CallOr

SpecOr == OrInit /\ [][OrNext]_vars

\* The filled configs Server::start builds arguments from.
ArgConfigs ==
    [name : {"a"},
     auth_port : {AuthPortsStart},
     game_port : {GamePortsStart, GamePortsEnd},
     game_config :
        [report_to_master : BOOLEAN,
         graphics_mode : {"Default", "Software"},
         map : OptionOf({"mp_glitch"}),
         playlist_overrides :
            {po \in PlaylistOverridesValues : po.match_classic_mp_enabled # Some(FALSE)},
         extra_playlist_vars : {<< >>, <<<<"max_players", "12">>>>},
         extra_vars : {<< >>, <<<<"map", "mp_lf_deck">>>>,
                       <<<<"setplaylistvaroverrides", "x">>>>}]]

\* Server::start's arguments for one filled config, from the builder to the
\* env vars.
BuildInit ==
    /\ NewCluster
    /\ supervisor = "none"
    /\ restore_file = NoFile
    /\ command = "None"
    /\ self_overrides = DefaultOverrides
    /\ other = DefaultOverrides
    /\ or_result = None
    /\ filled_config \in {Some(config) : config \in ArgConfigs}
    /\ arg_builder = None
    /\ extra_args = << >>
    /\ out_envs = None
    /\ NoFixedPoll
    /\ stop_calls = << >>

BuildNext ==
    \/ MakeArgBuilder
    \/ Build

SpecBuild == BuildInit /\ [][BuildNext]_vars

\* The configs of the polls with fixed answers: no port pinned, a restart
\* schedule or none.
FixedConfigs ==
    [game_port : {None}, auth_port : {None}, restart_schedule : Schedules]

FixedServerLists == ServerLists(FixedConfigs)

\* A container exits by itself between two operations of the driver.
ContainerCrashIdle(container_id) ==
    /\ Idle
    /\ ContainerCrash(container_id)

\* The cluster polled by a driver and an engine whose answers to each server
\* are settled as the poll is called; the futures of a phase run in any order.
FixedNext ==
    \/ \E list \in FixedServerLists : LoadServers(list)
    \/ PollBeginFixed
    \/ \E server_index \in DOMAIN servers : PollLivenessFixed(server_index)
    \/ PollAllocate
    \/ \E server_index \in DOMAIN servers : PollStartFixed(server_index)
    \/ ReturnFixed
    \/ \E container_id \in DOMAIN containers : ContainerCrashIdle(container_id)
    \/ Tick

SpecFixed == Init /\ [][FixedNext]_vars

\* The servers stop is called on: NotRunning, or Running in a container the
\* engine made.
StopServers ==
    {[id |-> "a", config |-> config, state |-> state, is_old |-> is_old] :
        config \in Configs, is_old \in BOOLEAN,
        state \in {NotRunning} \cup
                  {RunningServer(container_id, auth_port, game_port, 0) :
                      container_id \in 1..MaxContainers,
                      auth_port \in AuthPortsStart..AuthPortsEnd,
                      game_port \in GamePortsStart..GamePortsEnd}}

\* A cluster of one server, whose container, when it is Running, the engine
\* still has or has lost.
StopInit ==
    /\ servers \in {<<server>> : server \in StopServers}
    /\ containers \in IF IsRunning(servers[1].state)
                       THEN {NoContainers,
                             WithContainer(NoContainers, servers[1].state.container_id, 0)}
                       ELSE {NoContainers}
    /\ created_count = IF IsRunning(servers[1].state)
                       THEN servers[1].state.container_id
                       ELSE 0
    /\ now = 0
    /\ pc = "idle"
    /\ op = "none"
    /\ new_servers = << >>
    /\ name = ""
    /\ stop_refused = {}
    /\ no_created = {}
    /\ poll_time = 0
    /\ restart_servers_futures = {}
    /\ restart_server_indices = << >>
    /\ restart_reason = << >>
    /\ scheduled_stop = << >>
    /\ restart_server_details = << >>
    /\ start_server_futures = {}
    /\ start_server_results = << >>
    /\ status = "None"
    /\ supervisor = "none"
    /\ restore_file = NoFile
    /\ command = "None"
    /\ self_overrides = DefaultOverrides
    /\ other = DefaultOverrides
    /\ or_result = None
    /\ NoArgBuilder
    /\ NoFixedPoll
    /\ stop_calls = << >>

StopNext ==
    \/ StopCall
    \/ \E refuse \in BOOLEAN : StopRequest(refuse)
    \/ StopInspect
    \/ StopSleep
    \/ EngineRemoves
    \/ Return

\* stop called on every such server.  The task that runs stop is polled until
\* it completes, and the engine does stop and remove a container whose stop
\* request it accepted.
SpecStop ==
    /\ StopInit
    /\ [][StopNext]_vars
    /\ WF_vars(StopInspect)
    /\ WF_vars(StopSleep)
    /\ WF_vars(EngineRemoves)


\* ================================================================ claims

RunningIndices(svrs) == {i \in DOMAIN svrs : IsRunning(svrs[i].state)}

GamePool == GamePortsStart..GamePortsEnd

AuthPool == AuthPortsStart..AuthPortsEnd

\* The game port of a Running server is the one its config pins or one of the pool.
PinnedOrPool(server) ==
    \/ server.state.game_port \in GamePool
    \/ /\ IsSome(server.config.game_port)
       /\ server.state.game_port = Unwrap(server.config.game_port)

\* C1: in every state, no two Running servers of the cluster hold the same
\* game_port.
C1_UniqueGamePorts ==
    \A i, j \in RunningIndices(servers) :
        i # j => servers[i].state.game_port # servers[j].state.game_port

\* Two servers run, the first on the pool port it pins, the second, unpinned,
\* on the next port of the pool: the allocation had to pass over a used port.
C1_Witness ==
    /\ Len(servers) = 2
    /\ RunningIndices(servers) = {1, 2}
    /\ servers[1].config.game_port = Some(GamePortsStart)
    /\ servers[1].state.game_port = GamePortsStart
    /\ servers[2].config.game_port = None
    /\ servers[2].state.game_port = GamePortsStart + 1

\* C2, as claimed: the game_port of every Running server is the pinned
\* game_port of its current config or a port of the pool, also right after a
\* load_servers that changed or removed the pin.
C2_PinnedOrPoolNow ==
    \A i \in RunningIndices(servers) : PinnedOrPool(servers[i])

\* C2, amended: a server that is Running after a step holds the game_port its
\* config pins or a port of the pool, or it was Running before the step under
\* the same id with that same game_port; so the port is the pinned or pool port
\* of the config the server was started with, and load_servers never moves it.
C2_PinnedOrPoolWhenStarted ==
    [][\A i \in RunningIndices(servers') :
          \/ PinnedOrPool(servers'[i])
          \/ \E j \in RunningIndices(servers) :
                /\ servers[j].id = servers'[i].id
                /\ servers[j].state.game_port = servers'[i].state.game_port]_vars

\* A server runs on a port outside the pool that its config no longer pins.
C2_Witness ==
    \E i \in RunningIndices(servers) :
        /\ servers[i].config.game_port = None
        /\ servers[i].state.game_port \notin GamePool

\* C3: in every state the ids of the cluster's servers are distinct (the lists
\* given to load_servers have distinct ids).
C3_UniqueIds ==
    \A i, j \in DOMAIN servers : i # j => servers[i].id # servers[j].id

\* load_servers has matched a Running server, which is now the new entry, and
\* has kept another old one.
C3_Witness ==
    /\ pc = "return" /\ op = "load_servers"
    /\ Len(servers) = 2
    /\ IsRunning(servers[1].state) /\ ~servers[1].is_old
    /\ servers[2].is_old


\* A step in which load_servers / stop_old is called and runs.
LoadStep == pc = "idle" /\ op' = "load_servers"

StopOldStep == pc = "idle" /\ op' = "stop_old"

IdsOf(svrs) == {svrs[k].id : k \in DOMAIN svrs}

\* C4: load_servers gives every new server whose id matches an existing entry
\* exactly that entry's state, under the new config, and makes no call to the
\* engine.
C4_StateCarried ==
    [][LoadStep =>
        /\ \A k \in DOMAIN new_servers' :
              \A j \in DOMAIN servers :
                  servers[j].id = new_servers'[k].id =>
                      /\ servers'[k].id = new_servers'[k].id
                      /\ servers'[k].state = servers[j].state
                      /\ servers'[k].config = new_servers'[k].config
        /\ containers' = containers
        /\ created_count' = created_count]_vars

\* load_servers has returned; a server of the new list runs on a pool port
\* although its new config pins a port outside the pool.
C4_Witness ==
    /\ pc = "return" /\ op = "load_servers"
    /\ \E k \in DOMAIN new_servers :
          /\ IsRunning(servers[k].state)
          /\ servers[k].config.game_port = Some(GamePortsEnd + 1)
          /\ servers[k].state.game_port \in GamePool

\* The previous entries that ran and whose id is not among ids, in their order.
RunningAbsent(svrs, ids) ==
    SelectSeq(svrs, LAMBDA server : IsRunning(server.state) /\ server.id \notin ids)

\* C5: after load_servers(new) the cluster is the servers of new in their
\* order, followed by the previous entries that were Running and whose id is
\* not in new, in their previous order, each is_old and otherwise unchanged;
\* no other previous entry is in the cluster.
C5_ClusterAfterLoad ==
    [][LoadStep =>
        LET kept == RunningAbsent(servers, IdsOf(new_servers'))
        IN  /\ Len(servers') = Len(new_servers') + Len(kept)
            /\ \A k \in DOMAIN new_servers' :
                  /\ servers'[k].id = new_servers'[k].id
                  /\ servers'[k].config = new_servers'[k].config
                  /\ servers'[k].is_old = FALSE
            /\ \A m \in DOMAIN kept :
                  servers'[Len(new_servers') + m] = [kept[m] EXCEPT !.is_old = TRUE]]_vars

\* load_servers has returned; a new server that does not run is followed by a
\* previous one, still Running and is_old.
C5_Witness ==
    /\ pc = "return" /\ op = "load_servers"
    /\ Len(new_servers) = 1 /\ Len(servers) = 2
    /\ ~IsRunning(servers[1].state)
    /\ servers[2].is_old /\ IsRunning(servers[2].state)

\* C6: after stop_old no server of the cluster is is_old, and the servers that
\* were not is_old are all there, in their order, with their state and config.
C6_StopOld ==
    [][StopOldStep =>
        /\ \A i \in DOMAIN servers' : ~servers'[i].is_old
        /\ servers' = SelectSeq(servers, LAMBDA server : ~server.is_old)]_vars

\* stop_old has returned; the engine has made two containers, the one of the
\* only server left still runs and the other is gone.
C6_Witness ==
    /\ pc = "return" /\ op = "stop_old"
    /\ Len(servers) = 1 /\ IsRunning(servers[1].state)
    /\ created_count = 2
    /\ DOMAIN containers = {servers[1].state.container_id}

\* C7: when a cluster operation has completed, every is_old server of the
\* cluster is Running.
C7_OldServersRun ==
    pc \in {"idle", "return"} =>
        \A i \in DOMAIN servers : servers[i].is_old => IsRunning(servers[i].state)


\* poll has run to its end and is about to return.
PollReturns == pc = "return" /\ op = "poll"

\* The ports that were in use when Phase B reached server i: those of the
\* servers Phase A left Running and those given to the servers before i.
HeldAtTurn(i) ==
    LET running == {j \in DOMAIN servers : restart_server_indices[j] = None}
        before == {j \in DOMAIN servers : j < i /\ IsSome(restart_server_details[j])}
    IN  [auth |-> {servers[j].state.auth_port : j \in running}
                  \cup {Unwrap(restart_server_details[j]).auth_port : j \in before},
         game |-> {servers[j].state.game_port : j \in running}
                  \cup {Unwrap(restart_server_details[j]).game_port : j \in before}]

\* A port is free for a config: its pinned port is, or some port of the pool.
PortFree(pinned, pool, held) ==
    IF IsSome(pinned) THEN Unwrap(pinned) \notin held ELSE pool \ held # {}

PortsFreeAtTurn(i) ==
    /\ PortFree(servers[i].config.auth_port, AuthPool, HeldAtTurn(i).auth)
    /\ PortFree(servers[i].config.game_port, GamePool, HeldAtTurn(i).game)

\* What poll does for a server that Phase A queued for the given reason and
\* for which ports were free: it gives it ports, calls start, and the server
\* is Running on these ports when the start is accepted.
StartedWhenQueued(reason) ==
    \A i \in DOMAIN servers :
        (restart_reason[i] = reason /\ PortsFreeAtTurn(i)) =>
            /\ IsSome(restart_server_details[i])
            /\ start_server_results[i] # "NotStarted"
            /\ start_server_results[i] = "Ok" =>
                  /\ IsRunning(servers[i].state)
                  /\ servers[i].state.auth_port = Unwrap(restart_server_details[i]).auth_port
                  /\ servers[i].state.game_port = Unwrap(restart_server_details[i]).game_port

\* C8: a server whose id is new to the cluster is NotRunning right after
\* load_servers; the poll that finds a server NotRunning starts it when ports
\* are free for it, and it is Running when the engine accepts the start.
C8_NewServerStarts ==
    [][/\ LoadStep =>
            \A k \in DOMAIN new_servers' :
                new_servers'[k].id \notin IdsOf(servers) =>
                    servers'[k].state = NotRunning
       /\ PollReturns' => StartedWhenQueued("NotRunning")']_vars

\* poll returns; a server it found NotRunning now runs on the second port of
\* the pool, the first being held by a server that kept running.
C8_Witness ==
    /\ PollReturns
    /\ \E i, j \in DOMAIN servers :
          /\ restart_reason[i] = "NotRunning"
          /\ start_server_results[i] = "Ok"
          /\ IsRunning(servers[i].state)
          /\ servers[i].state.game_port = GamePortsStart + 1
          /\ restart_reason[j] = "None"
          /\ servers[j].state.game_port = GamePortsStart

\* C9: the Phase A future of a Running server whose container the engine no
\* longer knows sets it NotRunning and queues it; the same poll then gives it
\* ports when some are free and starts it, and it is Running again when the
\* engine accepts the start.
C9_CrashedRestartedInPoll ==
    [][/\ \A i \in DOMAIN servers :
            ( /\ pc = "phase_a"
              /\ i \in restart_servers_futures
              /\ i \notin restart_servers_futures'
              /\ IsRunning(servers[i].state)
              /\ servers[i].state.container_id \notin DOMAIN containers ) =>
                /\ servers'[i].state = NotRunning
                /\ restart_server_indices'[i] = Some(i)
                /\ restart_reason'[i] = "ContainerStopped"
       /\ PollReturns' => StartedWhenQueued("ContainerStopped")']_vars

\* poll returns; a server whose container had stopped runs again, in the
\* second container the engine made.
C9_Witness ==
    /\ PollReturns
    /\ \E i \in DOMAIN servers :
          /\ restart_reason[i] = "ContainerStopped"
          /\ start_server_results[i] = "Ok"
          /\ IsRunning(servers[i].state)
          /\ servers[i].state.container_id = 2
          /\ 1 \notin DOMAIN containers

\* C10 as stated: a server that a poll found with its container stopped is
\* not started by that poll.
C10_CrashedNotRestartedInPoll ==
    PollReturns =>
        \A i \in DOMAIN servers :
            restart_reason[i] = "ContainerStopped" => start_server_results[i] = "NotStarted"

\* C10: a server that Phase A found with its container stopped is not started
\* while Phase A runs; the same poll has called start for it when it returns
\* exactly when Phase B gave it ports.
C10_CrashedRestartedAfterPhaseB ==
    \A i \in DOMAIN restart_reason :
        restart_reason[i] = "ContainerStopped" =>
            /\ pc = "phase_a" =>
                  /\ start_server_results[i] = "NotStarted"
                  /\ ~IsRunning(servers[i].state)
            /\ PollReturns =>
                  (start_server_results[i] # "NotStarted"
                      <=> IsSome(restart_server_details[i]))

\* poll returns DidWork after it called start for a server whose container it
\* had found stopped.
C10_Witness ==
    /\ PollReturns
    /\ status = "DidWork"
    /\ \E i \in DOMAIN servers :
          /\ restart_reason[i] = "ContainerStopped"
          /\ IsSome(restart_server_details[i])
          /\ start_server_results[i] \in {"Ok", "Err"}


\* ---------------------------------------------------- scheduled restarts

\* The Phase A future of server i runs in this step.
LivenessStep(i) ==
    /\ pc = "phase_a"
    /\ i \in restart_servers_futures
    /\ i \notin restart_servers_futures'

\* Server i is Running with a schedule, and the engine reports its container
\* running.
ScheduledAndUp(i) ==
    /\ IsRunning(servers[i].state)
    /\ servers[i].state.container_id \in DOMAIN containers
    /\ IsSome(servers[i].config.restart_schedule)

\* T: the least instant of server i's schedule after its start_time.
NextInstant(i) ==
    LET period == Unwrap(servers[i].config.restart_schedule)
        start_time == servers[i].state.start_time
    IN  CHOOSE t \in (start_time + 1)..(start_time + period) : t % period = 0

\* C11 as stated: a poll whose instant is T or later calls stop on the server,
\* a poll before T does not.
C11_StoppedFromT ==
    [][\A i \in DOMAIN servers :
          (LivenessStep(i) /\ ScheduledAndUp(i)) =>
              (poll_time >= NextInstant(i) <=> scheduled_stop'[i] # "NotAttempted")]_vars

\* C11: a poll whose instant is later than T calls stop on the server, and
\* the server is NotRunning and its container gone when the engine accepts; a
\* poll at T or before T does not stop it for its schedule.
C11_StoppedAfterT ==
    [][\A i \in DOMAIN servers :
          (LivenessStep(i) /\ ScheduledAndUp(i)) =>
              /\ poll_time > NextInstant(i) <=> scheduled_stop'[i] # "NotAttempted"
              /\ scheduled_stop'[i] = "Accepted" =>
                    /\ servers'[i].state = NotRunning
                    /\ servers[i].state.container_id \notin DOMAIN containers'
              /\ restart_reason'[i] = "ScheduledRestart" => poll_time > NextInstant(i)]_vars

\* Phase A of a poll is over: the server started one period before the poll
\* instant was left alone, and the one started earlier was stopped.
C11_Witness ==
    /\ pc = "phase_a" /\ restart_servers_futures = {}
    /\ \E i, j \in DOMAIN servers :
          /\ IsRunning(servers[i].state)
          /\ servers[i].state.start_time + SchedulePeriod = poll_time
          /\ servers[i].config.restart_schedule = Some(SchedulePeriod)
          /\ scheduled_stop[i] = "NotAttempted"
          /\ scheduled_stop[j] = "Accepted"
          /\ restart_reason[j] = "ScheduledRestart"

\* C12: a poll whose scheduled stop of a server is accepted queues the server,
\* which had started before the poll instant; the same poll gives it ports
\* when some are free and starts it, and when the engine accepts the start the
\* server is Running with a start_time not before the poll instant.
C12_ScheduledRestartInPoll ==
    [][/\ \A i \in DOMAIN servers :
            (LivenessStep(i) /\ scheduled_stop'[i] = "Accepted") =>
                /\ servers[i].state.start_time < poll_time
                /\ servers'[i].state = NotRunning
                /\ restart_server_indices'[i] = Some(i)
                /\ restart_reason'[i] = "ScheduledRestart"
       /\ PollReturns' =>
            /\ StartedWhenQueued("ScheduledRestart")'
            /\ \A i \in DOMAIN servers' :
                  (restart_reason'[i] = "ScheduledRestart"
                        /\ start_server_results'[i] = "Ok") =>
                      servers'[i].state.start_time >= poll_time']_vars

\* poll returns; a server it stopped for its schedule runs again, started at
\* the poll instant, two periods after the first instant.
C12_Witness ==
    /\ PollReturns
    /\ \E i \in DOMAIN servers :
          /\ scheduled_stop[i] = "Accepted"
          /\ restart_reason[i] = "ScheduledRestart"
          /\ start_server_results[i] = "Ok"
          /\ IsRunning(servers[i].state)
          /\ servers[i].state.start_time = 2 * SchedulePeriod
          /\ poll_time = 2 * SchedulePeriod

\* C13 as stated: when the engine refuses the scheduled stop, the server has
\* the same Running state after its Phase A future and is not queued.
C13_RefusedStaysRunning ==
    [][\A i \in DOMAIN servers :
          (LivenessStep(i) /\ scheduled_stop'[i] = "Refused") =>
              /\ servers'[i].state = servers[i].state
              /\ restart_server_indices'[i] = None]_vars

\* C13: when the engine refuses the scheduled stop, the server has the same
\* Running state and is not queued, unless the same future then finds the auth
\* port closed and a second stop request is accepted, which leaves it
\* NotRunning and queued as Frozen; while it keeps that state its restart
\* stays passed, and every poll that finds a passed restart requests the stop.
C13_RefusedStaysRunningUnlessFrozen ==
    [][\A i \in DOMAIN servers :
          LivenessStep(i) =>
              /\ (scheduled_stop'[i] = "Refused" /\ restart_reason'[i] # "Frozen") =>
                    /\ servers'[i].state = servers[i].state
                    /\ restart_server_indices'[i] = None
                    /\ servers[i].state.container_id \in DOMAIN containers'
                    /\ poll_time > NextInstant(i)
              /\ (scheduled_stop'[i] = "Refused" /\ restart_reason'[i] = "Frozen") =>
                    /\ servers'[i].state = NotRunning
                    /\ restart_server_indices'[i] = Some(i)
              /\ (ScheduledAndUp(i) /\ poll_time > NextInstant(i)) =>
                    scheduled_stop'[i] \in {"Accepted", "Refused"}]_vars

\* poll returns NoWork; the scheduled stop of a server was refused, and the
\* server runs as it did since the first instant.
C13_Witness ==
    /\ PollReturns /\ status = "NoWork"
    /\ \E i \in DOMAIN servers :
          /\ scheduled_stop[i] = "Refused"
          /\ restart_server_indices[i] = None
          /\ IsRunning(servers[i].state)
          /\ servers[i].state.start_time = 0
          /\ servers[i].state.container_id \in DOMAIN containers


\* ------------------------------------------------------- port allocation

\* Phase B of the poll in progress has run.
AfterPhaseB == op = "poll" /\ pc \in {"phase_c", "return"}

\* Server i was queued by Phase A.
Queued(i) == restart_server_indices[i] = Some(i)

\* An auth port could be had at server i's turn, so that Phase B went on to
\* its game port.
AuthFreeAtTurn(i) ==
    PortFree(servers[i].config.auth_port, AuthPool, HeldAtTurn(i).auth)

\* Server i got no ports: it is not started and stays NotRunning.
Skipped(i) ==
    /\ restart_server_details[i] = None
    /\ start_server_results[i] = "NotStarted"
    /\ servers[i].state = NotRunning

LowestFree(held) ==
    CHOOSE port \in GamePool \ held : \A q \in GamePool \ held : port <= q

NotRunningQueued ==
    \A i \in DOMAIN servers :
        (LivenessStep(i) /\ servers[i].state = NotRunning) =>
            /\ restart_server_indices'[i] = Some(i)
            /\ servers'[i].state = NotRunning

\* A server that is NotRunning stays so until a Phase C future starts it.
NotRunningUntilStarted ==
    \A i \in DOMAIN servers, j \in DOMAIN servers' :
        ( /\ servers'[j].id = servers[i].id
          /\ servers[i].state = NotRunning
          /\ IsRunning(servers'[j].state) ) =>
            /\ pc = "phase_c" /\ i = j
            /\ i \in start_server_futures /\ i \notin start_server_futures'

StartStep(i) ==
    /\ pc = "phase_c"
    /\ i \in start_server_futures
    /\ i \notin start_server_futures'

\* C18: a call of Server::start that fails leaves the server NotRunning, and
\* it is NotRunning when the poll returns; start is still called for every
\* other server that got ports, and those whose start is accepted are Running;
\* the server stays NotRunning until a later poll, which queues it again.
C18_FailedStartRetried ==
    [][/\ \A i \in DOMAIN servers :
            (StartStep(i) /\ start_server_results'[i] = "Err") =>
                /\ servers[i].state = NotRunning
                /\ servers'[i].state = NotRunning
       /\ PollReturns' =>
            \A i \in DOMAIN servers' :
                /\ start_server_results'[i] = "Err" => servers'[i].state = NotRunning
                /\ IsSome(restart_server_details'[i]) =>
                      start_server_results'[i] # "NotStarted"
                /\ start_server_results'[i] = "Ok" => IsRunning(servers'[i].state)
       /\ NotRunningQueued
       /\ NotRunningUntilStarted]_vars

\* poll returns; the start of the first server failed before the engine had
\* started a container, the second server runs in the only container made.
C18_Witness ==
    /\ PollReturns
    /\ Len(servers) = 2
    /\ start_server_results[1] = "Err" /\ servers[1].state = NotRunning
    /\ start_server_results[2] = "Ok" /\ IsRunning(servers[2].state)
    /\ created_count = 1
    /\ servers[2].state.container_id \in DOMAIN containers

\* ------------------------------------------------------------- stops

\* stop_all or stop (by name) is called and runs in this step.
StopStep == pc = "idle" /\ op' \in {"stop_all", "stop"}

\* The servers Server::stop is called on in this step.
StopTargets ==
    IF op' = "stop_all"
    THEN DOMAIN servers
    ELSE {k \in DOMAIN servers : servers[k].id = name'}

\* C19: a server whose stop request the engine answers with an error keeps its
\* state; a Running server becomes NotRunning by Server::stop only with its
\* container gone from the engine; a NotRunning server stays NotRunning; a
\* server on which stop is not called keeps its state.
C19_StopRefusedKeepsState ==
    [][StopStep =>
          /\ Len(servers') = Len(servers)
          /\ \A i \in DOMAIN servers :
                /\ i \in stop_refused' =>
                      /\ i \in StopTargets
                      /\ IsRunning(servers[i].state)
                      /\ servers'[i].state = servers[i].state
                /\ (IsRunning(servers[i].state) /\ ~IsRunning(servers'[i].state)) =>
                      /\ i \in StopTargets \ stop_refused'
                      /\ servers[i].state.container_id \in DOMAIN containers
                      /\ servers[i].state.container_id \notin DOMAIN containers'
                /\ ~IsRunning(servers[i].state) => servers'[i].state = NotRunning
                /\ i \notin StopTargets => servers'[i] = servers[i]]_vars

\* stop (by name) has returned; the request for the first of two Running
\* servers was refused, and both run as before.
C19_Witness ==
    /\ pc = "return" /\ op = "stop"
    /\ stop_refused = {1}
    /\ Len(servers) = 2
    /\ servers[1].id = name
    /\ \A i \in {1, 2} :
          /\ IsRunning(servers[i].state)
          /\ servers[i].state.container_id \in DOMAIN containers

\* C20: after a stop_all in which the engine answered no stop request with an
\* error, every server is NotRunning and no container of a server is left,
\* and the cluster has the same servers in the same order, with the same ids,
\* configs and is_old flags.
C20_StopAll ==
    [][(pc = "idle" /\ op' = "stop_all") =>
          /\ Len(servers') = Len(servers)
          /\ \A i \in DOMAIN servers :
                /\ servers'[i].id = servers[i].id
                /\ servers'[i].config = servers[i].config
                /\ servers'[i].is_old = servers[i].is_old
                /\ stop_refused' = {} =>
                      /\ servers'[i].state = NotRunning
                      /\ IsRunning(servers[i].state) =>
                            servers[i].state.container_id \notin DOMAIN containers']_vars

\* stop_all has returned without a refused request; the engine had made two
\* containers and none is left, and of the two servers, both NotRunning, the
\* second is is_old.
C20_Witness ==
    /\ pc = "return" /\ op = "stop_all"
    /\ stop_refused = {}
    /\ created_count = 2 /\ DOMAIN containers = {}
    /\ Len(servers) = 2
    /\ servers[1].state = NotRunning /\ ~servers[1].is_old
    /\ servers[2].state = NotRunning /\ servers[2].is_old

\* ------------------------------------------- the restore file and main

SerializeStep == pc = "idle" /\ op' = "serialize"

\* The index in svrs of its k-th Running server.
KthRunning(svrs, k) ==
    CHOOSE i \in RunningIndices(svrs) :
        Cardinality({j \in RunningIndices(svrs) : j <= i}) = k

\* records holds one record per Running server of svrs, in cluster order, with
\* the server's id as name, its container_id and its ports.
RecordsOf(records, svrs) ==
    /\ Len(records) = Cardinality(RunningIndices(svrs))
    /\ \A k \in DOMAIN records :
          LET server == svrs[KthRunning(svrs, k)]
          IN  /\ records[k].name = server.id
              /\ records[k].container_id = server.state.container_id
              /\ records[k].game_port = server.state.game_port
              /\ records[k].auth_port = server.state.auth_port

\* C21: serialize returns exactly one record per Running server, in cluster
\* order, with the server's id as name, its container_id and its game_port
\* (and its auth_port), and no record for a NotRunning server; the call changes
\* neither the cluster nor the engine, and what is written to the restore file
\* is what serialize returned.
C21_Serialize ==
    [][SerializeStep =>
          /\ RecordsOf(Serialize(servers), servers)
          /\ servers' = servers
          /\ containers' = containers
          /\ created_count' = created_count
          /\ restore_file' # restore_file => restore_file'.records = Serialize(servers)]_vars

\* serialize has returned and its two records are on disk: both servers are
\* Running, in different containers.
C21_Witness ==
    /\ pc = "return" /\ op = "serialize"
    /\ Len(servers) = 2
    /\ IsRunning(servers[1].state) /\ IsRunning(servers[2].state)
    /\ servers[1].state.container_id # servers[2].state.container_id
    /\ restore_file.present /\ Len(restore_file.records) = 2
    /\ restore_file.records[1].name = servers[1].id

DeserializeStep == pc = "idle" /\ op' = "deserialize"

\* The Running servers of svrs by name, container_id and game_port.
RunningSet(svrs) ==
    {<<svrs[i].id, svrs[i].state.container_id, svrs[i].state.game_port>> :
        i \in RunningIndices(svrs)}

\* C22: round trip.  When main starts with a restore file that holds what
\* serialize returned for the cluster of the run before (servers, as that run
\* left it), the config declares the same ids, every recorded container is
\* still running and has a created time, then the Running servers after
\* deserialize are, by name, container_id and game_port, those of the cluster
\* that was serialized.
C22_RoundTrip ==
    [][(/\ DeserializeStep
        /\ restore_file.present /\ restore_file.parsable
        /\ restore_file.records = Serialize(servers)
        /\ IdsOf(new_servers') = IdsOf(servers)
        /\ \A i \in RunningIndices(servers) :
              servers[i].state.container_id \in DOMAIN containers
        /\ no_created' = {})
       => RunningSet(servers') = RunningSet(servers)]_vars

\* main has started again from the two records of the run before: the config
\* declares the two servers in the other order, both are Running again in
\* their containers, and the file is gone.
C22_Witness ==
    /\ pc = "return" /\ op = "deserialize"
    /\ Len(servers) = 2
    /\ servers[1].id = "b" /\ servers[2].id = "a"
    /\ IsRunning(servers[1].state) /\ IsRunning(servers[2].state)
    /\ servers[1].state.container_id = 2 /\ servers[2].state.container_id = 1
    /\ DOMAIN containers = {1, 2}
    /\ no_created = {}
    /\ ~restore_file.present

\* The records deserialize is called with in this step.
RecordsRead == LoadSerializedServers(restore_file)

\* Record k is one deserialize skips: no server of the cluster has its name,
\* the engine has no running container of its id, or the inspect response has
\* no valid created time.
SkippedRecord(k) ==
    \/ RecordsRead[k].name \notin IdsOf(new_servers')
    \/ RecordsRead[k].container_id \notin DOMAIN containers
    \/ k \in no_created'

\* C23: deserialize skips a record whose name no server has, whose container
\* the engine does not know or reports not running, or whose container has no
\* valid created time: a server named by skipped records only, or by none,
\* keeps its state.  Any other record sets the server it names, and no other,
\* Running with the record's container_id and game_port.  Ids, configs,
\* is_old and the engine are left alone.
C23_Deserialize ==
    [][DeserializeStep =>
          /\ Len(servers') = Len(new_servers')
          /\ containers' = containers
          /\ \A i \in DOMAIN servers' :
                LET applied == {k \in DOMAIN RecordsRead :
                                   /\ RecordsRead[k].name = new_servers'[i].id
                                   /\ ~SkippedRecord(k)}
                IN  /\ servers'[i].id = new_servers'[i].id
                    /\ servers'[i].config = new_servers'[i].config
                    /\ servers'[i].is_old = new_servers'[i].is_old
                    /\ applied = {} => servers'[i].state = new_servers'[i].state
                    /\ applied # {} =>
                          /\ IsRunning(servers'[i].state)
                          /\ \E k \in applied :
                                /\ servers'[i].state.container_id =
                                      RecordsRead[k].container_id
                                /\ servers'[i].state.game_port = RecordsRead[k].game_port
                                /\ servers'[i].state.auth_port = RecordsRead[k].auth_port]_vars

\* deserialize has returned; the file, which could not be removed, holds two
\* records.  The first names a server whose container has stopped since, and
\* that server is NotRunning; the second was applied.
C23_Witness ==
    /\ pc = "return" /\ op = "deserialize"
    /\ restore_file.present /\ Len(restore_file.records) = 2
    /\ Len(servers) = 2
    /\ no_created = {}
    /\ restore_file.records[1].container_id \notin DOMAIN containers
    /\ \E i \in DOMAIN servers :
          /\ servers[i].id = restore_file.records[1].name
          /\ servers[i].state = NotRunning
    /\ \E i \in DOMAIN servers :
          /\ servers[i].id = restore_file.records[2].name
          /\ IsRunning(servers[i].state)
          /\ servers[i].state.container_id = restore_file.records[2].container_id

\* deserialize has returned and a record whose container is running was
\* skipped for want of a created time: its server is NotRunning.
C23_WitnessNoCreated ==
    /\ pc = "return" /\ op = "deserialize"
    /\ restore_file.present /\ Len(restore_file.records) >= 1
    /\ no_created = {1}
    /\ restore_file.records[1].container_id \in DOMAIN containers
    /\ \E i \in DOMAIN servers :
          /\ servers[i].id = restore_file.records[1].name
          /\ servers[i].state = NotRunning

\* The restore file store_serialized_servers writes for the cluster svrs.
StoredFile(svrs) ==
    [present |-> TRUE, parsable |-> TRUE, records |-> Serialize(svrs)]

\* C24: the StopWraith handler leaves on disk the records of the servers that
\* are Running when it is handled (or, when the write fails, what was there),
\* and leaves the loop with no call to the engine: the cluster is unchanged
\* and every container that was running still is.  Once the loop is left no
\* poll begins and the cluster is not changed.
C24_StopWraith ==
    [][/\ SerializeStep =>
             /\ supervisor = "recv" /\ supervisor' = "exit"
             /\ restore_file' = StoredFile(servers) \/ restore_file' = restore_file
             /\ restore_file'.present /\ restore_file' # restore_file =>
                   RecordsOf(restore_file'.records, servers)
             /\ servers' = servers
             /\ containers' = containers
             /\ created_count' = created_count
       /\ (supervisor = "exit" /\ supervisor' = "exit") =>
             /\ op' # "poll"
             /\ pc' \in {"idle", "return"}
             /\ servers' = servers
             /\ created_count' = created_count]_vars

\* StopWraith has been handled and the loop left: the record of the one
\* Running server is on disk and its container is still running.
C24_Witness ==
    /\ supervisor = "exit" /\ pc = "idle"
    /\ Len(servers) = 2
    /\ IsRunning(servers[1].state) /\ servers[2].state = NotRunning
    /\ servers[1].state.container_id \in DOMAIN containers
    /\ restore_file = StoredFile(servers)
    /\ Len(restore_file.records) = 1

\* The server thread takes command c from the channel in this step.
Handles(c) == supervisor = "recv" /\ command' = c

\* C25: the StopAll handler runs stop_all and leaves the loop: when the engine
\* answers no stop request with an error every server is NotRunning and none
\* of their containers is left, and no container is created in the step.  From
\* then on no poll begins, so no container is created and no server becomes
\* Running.
C25_StopAll ==
    [][/\ Handles("StopAll") =>
             /\ op' = "stop_all"
             /\ supervisor' = "exit"
             /\ created_count' = created_count
             /\ Len(servers') = Len(servers)
             /\ \A i \in DOMAIN servers :
                   /\ ~IsRunning(servers[i].state) => ~IsRunning(servers'[i].state)
                   /\ stop_refused' = {} =>
                         /\ servers'[i].state = NotRunning
                         /\ IsRunning(servers[i].state) =>
                               servers[i].state.container_id \notin DOMAIN containers'
       /\ supervisor = "exit" =>
             /\ pc' # "phase_a" /\ pc' # "phase_c"
             /\ created_count' = created_count
             /\ supervisor' = "exit" => RunningIndices(servers') = RunningIndices(servers)]_vars

\* StopAll has been handled with every stop accepted: the loop is left, the
\* two containers the engine had made are gone and both servers are
\* NotRunning.
C25_Witness ==
    /\ supervisor = "exit" /\ pc = "return" /\ command = "StopAll"
    /\ stop_refused = {}
    /\ created_count = 2 /\ DOMAIN containers = {}
    /\ Len(servers) = 2
    /\ servers[1].state = NotRunning /\ servers[2].state = NotRunning

\* C26: the RestartAll handler runs stop_all, after which every server is
\* NotRunning when the engine answered no stop request with an error, and the
\* loop goes on: the next operation on the cluster is a poll.  That poll
\* queues every server it finds NotRunning, gives it ports when some are free
\* and starts it; a server whose start is accepted is Running in a container
\* the engine had not made before.
C26_RestartAll ==
    [][/\ Handles("RestartAll") =>
             /\ op' = "stop_all"
             /\ supervisor' = "poll"
             /\ Len(servers') = Len(servers)
             /\ stop_refused' = {} =>
                   \A i \in DOMAIN servers : servers'[i].state = NotRunning
       /\ (command = "RestartAll" /\ pc = "idle") =>
             /\ supervisor = "poll"
             /\ servers' # servers \/ supervisor' # supervisor => op' = "poll"
       /\ command = "RestartAll" =>
             /\ \A i \in DOMAIN servers :
                   /\ (LivenessStep(i) /\ servers[i].state = NotRunning) =>
                         restart_reason'[i] = "NotRunning"
                   /\ (StartStep(i) /\ IsRunning(servers'[i].state)) =>
                         /\ servers'[i].state.container_id > created_count
                         /\ servers'[i].state.container_id \in DOMAIN containers'
                         /\ \A c \in DOMAIN containers : c <= created_count
             /\ PollReturns' => StartedWhenQueued("NotRunning")']_vars

\* The poll after a RestartAll returns: the one server, which ran in the
\* first container, was found NotRunning and runs in the second; the first
\* container is gone.
C26_Witness ==
    /\ PollReturns /\ command = "RestartAll"
    /\ Len(servers) = 1
    /\ restart_reason[1] = "NotRunning"
    /\ start_server_results[1] = "Ok"
    /\ IsRunning(servers[1].state)
    /\ servers[1].state.container_id = 2
    /\ DOMAIN containers = {2}

\* C27: the Restart handler calls stop on the server whose id is the name and
\* on no other: every other server is unchanged, the named one keeps its id,
\* config and is_old and is NotRunning unless the engine answered its stop
\* request with an error, and no container but its own goes.  When no server
\* has the name nothing changes.  The loop goes on.
C27_RestartByName ==
    [][Handles("Restart") =>
          /\ op' = "stop"
          /\ supervisor' = "poll"
          /\ created_count' = created_count
          /\ Len(servers') = Len(servers)
          /\ \A i \in DOMAIN servers :
                IF servers[i].id # name'
                THEN servers'[i] = servers[i]
                ELSE /\ servers'[i].id = servers[i].id
                     /\ servers'[i].config = servers[i].config
                     /\ servers'[i].is_old = servers[i].is_old
                     /\ servers'[i].state =
                           IF i \in stop_refused' THEN servers[i].state ELSE NotRunning
          /\ \A c \in DOMAIN containers :
                c \notin DOMAIN containers' =>
                   \E i \in DOMAIN servers :
                      /\ servers[i].id = name'
                      /\ IsRunning(servers[i].state)
                      /\ servers[i].state.container_id = c
          /\ name' \notin IdsOf(servers) =>
                servers' = servers /\ containers' = containers]_vars

\* Restart("a") has been handled: a, the first of two servers, is NotRunning
\* and its container is gone; b is Running in the other container.
C27_Witness ==
    /\ pc = "return" /\ command = "Restart" /\ name = "a"
    /\ stop_refused = {}
    /\ Len(servers) = 2
    /\ servers[1].id = "a" /\ servers[1].state = NotRunning
    /\ IsRunning(servers[2].state)
    /\ created_count = 2
    /\ DOMAIN containers = {servers[2].state.container_id}

\* Restart("b") has been handled in a cluster whose one server is a, which is
\* still Running.
C27_WitnessNoSuchName ==
    /\ pc = "return" /\ command = "Restart" /\ name = "b"
    /\ Len(servers) = 1
    /\ servers[1].id = "a" /\ IsRunning(servers[1].state)
    /\ servers[1].state.container_id \in DOMAIN containers

\* main passes from its start-up to the loop of the server thread.
StartUpDone == supervisor \in {"boot", "exit"} /\ supervisor' = "first_poll"

\* C28: a restore file that is present and cannot be parsed is gone when main
\* has passed its start-up and the first poll is about to begin.
C28_UnparsableFileDeleted ==
    [][(StartUpDone /\ restore_file.present /\ ~restore_file.parsable) =>
          ~restore_file'.present]_vars

\* The thread is in its first poll, or about to begin it.
FirstPoll == supervisor = "first_poll"

ScalarFields == {"match_classic_mp_enabled", "match_max_players", "pilot_bleedout_mode"}

\* C30: self.or(other) has, in every scalar field, self's value when self has
\* one and other's otherwise, and as riffs the union of the two riff sets;
\* a.or(a) is a, and a.or(default) is a.
C30_Or ==
    IsSome(or_result) =>
        LET result == Unwrap(or_result)
        IN  /\ \A f \in ScalarFields :
                  /\ IsSome(self_overrides[f]) => result[f] = self_overrides[f]
                  /\ ~IsSome(self_overrides[f]) => result[f] = other[f]
            /\ \A riff \in Riffs :
                  riff \in result.riffs <=>
                     (riff \in self_overrides.riffs \/ riff \in other.riffs)
            /\ other = self_overrides => result = self_overrides
            /\ other = DefaultOverrides => result = self_overrides

\* or has returned: both sides set match_max_players and self's value was
\* taken, only other sets pilot_bleedout_mode and it was taken, and the riffs
\* of both sides are in the result.
C30_Witness ==
    /\ IsSome(or_result)
    /\ self_overrides.match_max_players = Some(MaxPlayersLow)
    /\ other.match_max_players = Some(MaxPlayersLow + 1)
    /\ self_overrides.pilot_bleedout_mode = None
    /\ other.pilot_bleedout_mode = Some("Default")
    /\ self_overrides.riffs = {"FloorIsLava"}
    /\ other.riffs = {"AllHolopilot"}
    /\ Unwrap(or_result).match_max_players = Some(MaxPlayersLow)
    /\ Unwrap(or_result).pilot_bleedout_mode = Some("Default")
    /\ Unwrap(or_result).riffs = Riffs


\* --------------------------------------------------------------- ArgBuilder

\* build has pushed its env vars.
Built == IsSome(arg_builder) /\ IsSome(out_envs)

\* The entry build pushes for the extra arguments it collected.
ExtraArgumentsEntry ==
    "NS_EXTRA_ARGUMENTS=" \o Join([k \in DOMAIN extra_args |-> "\"" \o extra_args[k] \o "\""], " ")

\* C31: for every filled config, build pushes exactly one NS_EXTRA_ARGUMENTS
\* entry, whose value is the tokens, each in double quotes, joined by spaces;
\* the tokens are the flags, the keys and values of the arguments, then
\* +setplaylistvaroverrides and right after it one token with all the
\* playlist vars, the empty string when there are none; and every key of the
\* env bucket is pushed as its own KEY=VALUE entry.
C31_Build ==
    Built =>
        LET builder == Unwrap(arg_builder)
            envs == Unwrap(out_envs)
            n == Len(extra_args)
        IN  /\ Cardinality({k \in DOMAIN envs : envs[k] = ExtraArgumentsEntry}) = 1
            /\ Len(envs) = Len(builder.kv_env_args) + 1
            /\ \A e \in DOMAIN builder.kv_env_args :
                  /\ builder.kv_env_args[e][1] # "NS_EXTRA_ARGUMENTS"
                  /\ Cardinality({k \in DOMAIN envs :
                        envs[k] = builder.kv_env_args[e][1] \o "="
                                     \o builder.kv_env_args[e][2]}) = 1
            /\ n = Cardinality(builder.flag_args) + 2 * Len(builder.kv_args) + 2
            /\ {extra_args[k] : k \in 1..Cardinality(builder.flag_args)} = builder.flag_args
            /\ \A e \in DOMAIN builder.kv_args :
                  \E k \in DOMAIN extra_args :
                     /\ k < n - 1
                     /\ extra_args[k] = builder.kv_args[e][1]
                     /\ extra_args[k + 1] = builder.kv_args[e][2]
            /\ extra_args[n - 1] = "+setplaylistvaroverrides"
            /\ extra_args[n] = Join(Flatten(builder.playlist_vars), " ")
            /\ (builder.playlist_vars = << >>) <=> (extra_args[n] = "")

\* build was called with a flag set and no playlist var: the last token is
\* the empty string.
C31_Witness ==
    /\ Built
    /\ Unwrap(arg_builder).playlist_vars = << >>
    /\ Unwrap(arg_builder).flag_args # {}
    /\ extra_args[Len(extra_args)] = ""
    /\ extra_args[Len(extra_args) - 1] = "+setplaylistvaroverrides"

\* build was called with two playlist vars and an extra var of the name of
\* the playlist token.
C31_WitnessPlaylistVars ==
    /\ Built
    /\ Len(Unwrap(arg_builder).playlist_vars) >= 2
    /\ \E k \in 1..(Len(extra_args) - 2) : extra_args[k] = "+setplaylistvaroverrides"


\* ------------------------------------------------------ the poll's outcome

\* The servers Phase B assigned ports to.
Assigned == {i \in DOMAIN restart_server_details : IsSome(restart_server_details[i])}

\* The servers Server::start was called on during this poll.
StartCalled == {i \in DOMAIN start_server_results : start_server_results[i] # "NotStarted"}

\* C32: poll returns NoWork exactly when Phase B assigned ports to no server,
\* and DidWork when it assigned ports to at least one, whether the starts
\* succeeded or not; when it returns NoWork, start was called on no server.
C32_PollStatus ==
    PollReturns =>
        /\ status \in {"NoWork", "DidWork"}
        /\ (status = "NoWork") <=> (Assigned = {})
        /\ (status = "DidWork") <=> (Assigned # {})
        /\ status = "NoWork" => StartCalled = {}
        /\ status = "DidWork" => StartCalled = Assigned

\* A poll returns DidWork although every start it called failed.
C32_Witness ==
    /\ PollReturns
    /\ status = "DidWork"
    /\ Cardinality(Assigned) = 2
    /\ \A i \in Assigned : start_server_results[i] = "Err"

\* A poll returns NoWork with a server queued that got no ports.
C32_WitnessNoWork ==
    /\ PollReturns
    /\ status = "NoWork"
    /\ \E i \in DOMAIN servers : IsSome(restart_server_indices[i])


\* ------------------------------------------------------ the poll's phases

\* Phase B runs in this step.
AllocateStep == op = "poll" /\ pc = "phase_a" /\ pc' \in {"phase_c", "return"}

\* Phase A found server i Running and left it NotRunning.
FoundDown(i) == restart_reason[i] \in {"ContainerStopped", "ScheduledRestart", "Frozen"}

\* C33: Phase B runs once every Phase A future has completed and reads the
\* states they left: the ports it takes for in use are those of the servers
\* still Running, so the ports of a server Phase A found dead or stopped are
\* free; no start is called before Phase B has assigned all the ports, and
\* the assignment does not change while the starts run.
C33_PhasesInOrder ==
    [][/\ AllocateStep =>
            /\ restart_servers_futures = {}
            /\ \A i \in DOMAIN servers : restart_reason[i] # "Pending"
            /\ servers' = servers
            /\ \A i \in DOMAIN servers :
                  IsSome(restart_server_details'[i]) =>
                     /\ Unwrap(restart_server_details'[i]).game_port
                           \notin PortsInUse(servers).game
                     /\ Unwrap(restart_server_details'[i]).auth_port
                           \notin PortsInUse(servers).auth
            /\ \A i \in DOMAIN servers :
                  (/\ Queued(i)
                   /\ \A j \in DOMAIN servers : j < i => ~Queued(j)
                   /\ servers[i].config.auth_port = None
                   /\ servers[i].config.game_port = None
                   /\ AuthPool \ PortsInUse(servers).auth # {}
                   /\ GamePool \ PortsInUse(servers).game # {}) =>
                     /\ IsSome(restart_server_details'[i])
                     /\ Unwrap(restart_server_details'[i]).game_port =
                           LowestFree(PortsInUse(servers).game)
       /\ \A i \in DOMAIN servers :
            (op = "poll" /\ LivenessStep(i)) =>
                /\ \A j \in DOMAIN servers : restart_server_details[j] = None
                /\ restart_server_details' = restart_server_details
                /\ start_server_results' = start_server_results
                /\ (IsRunning(servers[i].state) /\ ~IsRunning(servers'[i].state)) =>
                      /\ servers[i].state.game_port \notin PortsInUse(servers').game
                      /\ servers[i].state.auth_port \notin PortsInUse(servers').auth
       /\ \A i \in DOMAIN servers :
            (op = "poll" /\ StartStep(i)) =>
                /\ restart_servers_futures = {}
                /\ IsSome(restart_server_details[i])
                /\ restart_server_details' = restart_server_details
       /\ (op = "poll" /\ start_server_results' # start_server_results
             /\ pc' # "idle" /\ pc # "idle") => pc = "phase_c"]_vars

\* Phase B has run in a poll whose Phase A found both servers, neither of
\* which pins a port, down; they held two ports of the game pool between
\* them, and the first is given the first port of the pool again.
C33_Witness ==
    /\ AfterPhaseB
    /\ Len(servers) = 2
    /\ \A i \in {1, 2} :
          /\ FoundDown(i)
          /\ servers[i].config.game_port = None
          /\ servers[i].config.auth_port = None
          /\ IsSome(restart_server_details[i])
    /\ Unwrap(restart_server_details[1]).game_port = GamePortsStart
    /\ Unwrap(restart_server_details[2]).game_port = GamePortsStart + 1


\* ------------------------------------------ the order the futures complete in

\* Phase A with the futures run one after the other in cluster order.
RECURSIVE LivenessInOrder(_, _, _, _)
LivenessInOrder(svrs, cs, indices, k) ==
    IF k > Len(svrs)
    THEN [servers |-> svrs, containers |-> cs, indices |-> indices]
    ELSE LET r == LivenessFuture(svrs[k], k, cs, poll_time,
                                 responses[k].refuse_scheduled, responses[k].has_ip,
                                 responses[k].connects, responses[k].refuse_frozen)
         IN  LivenessInOrder([svrs EXCEPT ![k] = r.server], r.containers,
                             [indices EXCEPT ![k] = r.index], k + 1)

\* Phase C with the futures run one after the other in cluster order.
RECURSIVE StartInOrder(_, _, _, _)
StartInOrder(svrs, cs, details, k) ==
    IF k > Len(svrs)
    THEN [servers |-> svrs, containers |-> cs]
    ELSE IF details[k] = None
    THEN StartInOrder(svrs, cs, details, k + 1)
    ELSE LET r == Start(svrs[k], Unwrap(details[k]).auth_port,
                        Unwrap(details[k]).game_port, cs,
                        ContainerIdFor(Unwrap(entry).created_count, responses, k) - 1,
                        now,
                        responses[k].outcome)
         IN  StartInOrder([svrs EXCEPT ![k] = r.server], r.containers, details, k + 1)

\* What the poll in progress comes to when the futures of each phase run one
\* after the other in cluster order.
OutcomeInOrder ==
    LET a == LivenessInOrder(Unwrap(entry).servers, Unwrap(entry).containers,
                             [i \in DOMAIN Unwrap(entry).servers |-> None], 1)
        details == RestartServerDetails(a.servers, a.indices)
        c == StartInOrder(a.servers, a.containers, details, 1)
    IN  [servers |-> c.servers, containers |-> c.containers, details |-> details,
         status |-> IF \A i \in DOMAIN details : details[i] = None
                    THEN "NoWork"
                    ELSE "DidWork"]

\* C34: with the engine's answers to each server settled, a poll comes to the
\* same states, the same ports and the same PollStatus in whatever order the
\* futures of Phase A and of Phase C complete: to what it comes to when they
\* run in cluster order; the ports are assigned in cluster order.
C34_OrderIndependent ==
    (PollReturns /\ IsSome(entry)) =>
        /\ servers = OutcomeInOrder.servers
        /\ containers = OutcomeInOrder.containers
        /\ restart_server_details = OutcomeInOrder.details
        /\ status = OutcomeInOrder.status
        /\ \A i, j \in DOMAIN servers :
              (/\ i < j
               /\ IsSome(restart_server_details[i])
               /\ IsSome(restart_server_details[j])
               /\ servers[i].config.game_port = None
               /\ servers[j].config.game_port = None) =>
                  Unwrap(restart_server_details[i]).game_port
                     < Unwrap(restart_server_details[j]).game_port

\* A poll returns that found the first server frozen and the second one's
\* container gone, and started both again.
C34_Witness ==
    /\ PollReturns /\ IsSome(entry)
    /\ Len(servers) = 2
    /\ restart_reason[1] = "Frozen"
    /\ restart_reason[2] = "ContainerStopped"
    /\ IsSome(restart_server_details[1]) /\ IsSome(restart_server_details[2])
    /\ start_server_results[1] = "Err"
    /\ status = "DidWork"

\* The start of the second server has completed before that of the first.
C34_WitnessSecondFirst ==
    /\ op = "poll" /\ IsSome(entry)
    /\ Len(servers) = 2
    /\ pc = "phase_c" /\ start_server_futures = {1}
    /\ start_server_results[2] = "Ok"


\* ------------------------------------------------------- healthy servers

\* Server i was healthy as the poll in progress was called: Running, its
\* container running, no scheduled restart before the poll's instant, and the
\* engine answers its probe with an address that accepts the connection.
Healthy(i) ==
    LET server == Unwrap(entry).servers[i]
    IN  /\ IsRunning(server.state)
        /\ server.state.container_id \in DOMAIN Unwrap(entry).containers
        /\ \/ server.config.restart_schedule = None
           \/ NextAfter(Unwrap(server.config.restart_schedule),
                        server.state.start_time) >= poll_time
        /\ responses[i].has_ip
        /\ responses[i].connects

\* C35: poll calls start only on servers that are NotRunning once Phase A is
\* over; a server that is healthy as poll is called keeps its state, with its
\* container_id, ports and start_time, all through the poll: it is not
\* queued, gets no ports, no stop is requested for it, its container stays,
\* and start is not called on it.
C35_HealthyUntouched ==
    [][/\ \A i \in DOMAIN servers :
            (op = "poll" /\ StartStep(i)) =>
                /\ ~IsRunning(servers[i].state)
                /\ Queued(i)
                /\ ~Healthy(i)
       /\ (op' = "poll" /\ IsSome(entry')) =>
            \A i \in DOMAIN servers' :
                Healthy(i)' =>
                    /\ servers'[i] = Unwrap(entry').servers[i]
                    /\ servers'[i].state.container_id \in DOMAIN containers'
                    /\ containers'[servers'[i].state.container_id] =
                          Unwrap(entry').containers[servers'[i].state.container_id]
                    /\ restart_server_indices'[i] = None
                    /\ restart_reason'[i] \in {"Pending", "None"}
                    /\ scheduled_stop'[i] = "NotAttempted"
                    /\ restart_server_details'[i] = None
                    /\ start_server_results'[i] = "NotStarted"]_vars

\* A poll returns that found the first server healthy, with a schedule, and
\* started the second.
C35_Witness ==
    /\ PollReturns /\ IsSome(entry)
    /\ Len(servers) = 2
    /\ Healthy(1)
    /\ IsSome(servers[1].config.restart_schedule)
    /\ poll_time > 0
    /\ restart_reason[1] = "None"
    /\ start_server_results[2] = "Ok"
    /\ status = "DidWork"


\* --------------------------------------------- containers of failed starts

\* The containers that are the container_id of a Running server.
HeldContainers ==
    {servers[i].state.container_id : i \in {j \in DOMAIN servers : IsRunning(servers[j].state)}}

\* C36: when poll returns, every live container the supervisor created is
\* the container_id of a Running server of the cluster; a start that failed
\* has left none behind.
C36_NoContainerLeftBehind ==
    PollReturns => DOMAIN containers \subseteq HeldContainers


\* ----------------------------------------------------- stop_old and refusals

\* C37: stop_old takes an is_old server out of the cluster only once it is
\* NotRunning; an is_old server whose stop request the engine answered with an
\* error, and which is still Running, is still in the cluster afterwards.
C37_RefusedOldKept ==
    [][StopOldStep =>
        \A i \in DOMAIN servers :
            (servers[i].is_old /\ i \in stop_refused') =>
                \E k \in DOMAIN servers' :
                    /\ servers'[k].id = servers[i].id
                    /\ servers'[k].state = servers[i].state]_vars


\* ------------------------------------------------------------- re-adoption

FoundNotRunning(i) == restart_reason[i] \in {"NotRunning", "ContainerStopped"}

\* C39: poll treats an is_old server as any other: one that is NotRunning or
\* whose container is gone is queued, gets ports exactly when ports are free
\* at its turn in cluster order, is started, and is Running when the engine
\* accepts the start; no step of poll removes a server or changes is_old.
C39_OldServersPolled ==
    [][/\ AfterPhaseB' =>
            \A i \in DOMAIN servers' :
                (servers'[i].is_old /\ FoundNotRunning(i)') =>
                    /\ Queued(i)'
                    /\ IsSome(restart_server_details'[i]) <=> PortsFreeAtTurn(i)'
                    /\ (PollReturns' /\ PortsFreeAtTurn(i)') =>
                          /\ start_server_results'[i] \in {"Ok", "Err"}
                          /\ start_server_results'[i] = "Ok" =>
                                /\ IsRunning(servers'[i].state)
                                /\ servers'[i].is_old
                                /\ servers'[i].state.game_port =
                                      Unwrap(restart_server_details'[i]).game_port
       /\ (op = "poll" /\ op' = "poll") =>
            /\ Len(servers') = Len(servers)
            /\ \A i \in DOMAIN servers :
                  /\ servers'[i].id = servers[i].id
                  /\ servers'[i].is_old = servers[i].is_old]_vars

\* A poll returns that found the container of an is_old server gone and
\* started the server again, after a server that is not is_old.
C39_Witness ==
    /\ PollReturns
    /\ Len(servers) = 2
    /\ ~servers[1].is_old
    /\ restart_reason[1] = "NotRunning"
    /\ servers[2].is_old
    /\ restart_reason[2] = "ContainerStopped"
    /\ start_server_results[2] = "Ok"
    /\ IsRunning(servers[2].state)

\* A poll returns that found an is_old server NotRunning and started it.
C39_WitnessNotRunning ==
    /\ PollReturns
    /\ \E i \in DOMAIN servers :
          /\ servers[i].is_old
          /\ restart_reason[i] = "NotRunning"
          /\ start_server_results[i] = "Ok"


\* ------------------------------------------------ Server::stop, step by step

\* stop is in progress, between its call and its return.
Stopping == op = "stop" /\ pc \in {"stop_request", "stop_inspect", "stop_sleep"}

\* The engine has accepted the stop request and stop waits for the container.
StopAccepted == op = "stop" /\ pc \in {"stop_inspect", "stop_sleep"}

\* stop has returned with the server NotRunning.
StoppedNotRunning == op = "stop" /\ pc = "return" /\ servers[1].state = NotRunning

\* The engine's answer to the last call stop made.
LastAnswer(calls) == calls[Len(calls)]

\* C40, safety: called on a NotRunning server, stop returns at once without
\* a call to the engine; on a Running server it changes nothing before it
\* returns, returns with the state unchanged when the stop request is
\* answered with an error, and otherwise returns, NotRunning, only on an
\* inspect that does not find the container: an inspect that finds it is
\* followed by the sleep and another inspect.
C40_StopSteps ==
    [][/\ (Idle /\ op' = "stop" /\ ~IsRunning(servers[1].state)) =>
            /\ pc' = "return"
            /\ stop_calls' = << >>
            /\ servers'[1].state = NotRunning
            /\ containers' = containers
       /\ (Idle /\ op' = "stop" /\ IsRunning(servers[1].state)) =>
            /\ pc' = "stop_request"
            /\ stop_calls' = << >>
       /\ (Stopping /\ Stopping') => servers' = servers
       /\ (Stopping /\ pc' = "return") =>
            \/ /\ pc = "stop_request"
               /\ LastAnswer(stop_calls') = "stop_container: Err"
               /\ servers' = servers
            \/ /\ pc = "stop_inspect"
               /\ LastAnswer(stop_calls') = "inspect_container: Err"
               /\ servers[1].state.container_id \notin DOMAIN containers'
               /\ servers' = [servers EXCEPT ![1].state = NotRunning]
       /\ (pc = "stop_inspect" /\ servers[1].state.container_id \in DOMAIN containers) =>
            (pc' = "stop_sleep" \/ pc' = pc) /\ servers' = servers
       /\ pc = "stop_sleep" => pc' \in {"stop_sleep", "stop_inspect"}]_vars

\* C40: stop terminates with the server NotRunning once the engine has
\* accepted the stop request, the engine removing the container in the end;
\* and stop goes through its steps as C40_StopSteps says.
C40_StopTerminates ==
    /\ C40_StopSteps
    /\ StopAccepted ~> StoppedNotRunning

\* stop has returned NotRunning after an inspect that found the container
\* and one that did not.
C40_Witness ==
    /\ StoppedNotRunning
    /\ Len(stop_calls) = 3
    /\ stop_calls[1] = "stop_container: Ok"
    /\ stop_calls[2] = "inspect_container: Ok"
    /\ stop_calls[3] = "inspect_container: Err"

\* stop has returned on a NotRunning server without a call to the engine.
C40_WitnessNotRunning ==
    /\ StoppedNotRunning
    /\ stop_calls = << >>

====
